---- MODULE Spec2Model ----
(***************************************************************************)
(* Model of the visual segmentation engine (server/segmentation-engine.js) *)
(* and of the visual flow around it (server/visual-analyzer.js,            *)
(* server/powerpoint-processor.js, server/index.js).                       *)
(*                                                                         *)
(* Strings are sequences of one-character strings, so that interpolation, *)
(* join, split and includes are computed and not assumed.  Coordinates    *)
(* are naturals; centres are compared on doubled coordinates, which is    *)
(* exact for the integer boxes the model draws.                            *)
(***************************************************************************)
EXTENDS Integers, Sequences, FiniteSets, TLC

VARIABLES
    segmentIdCounter,   \* SegmentationEngine.segmentIdCounter
    calls,              \* number of generateSegmentation calls made so far
    slides,             \* argument of the last generateSegmentation call
    allSegments,        \* generateSegmentation: allSegments before optimizing
    segments,           \* value returned by the last generateSegmentation call
    createdIds,         \* history: ids of every segment the instance created
    fn,                 \* name of the engine method applied to `input`
    input,              \* argument(s) of a direct method call
    result,             \* value the method returned
    pc,                 \* position of the request handler
    request,            \* the request the handler received
    pptData,            \* pptData.slides, returned by processPowerPoint
    analyzedSlides,     \* analyzeSlides: the results pushed so far
    response,           \* the response the handler sent
    now,                \* Date.now(): the clock, in milliseconds
    tempFiles,          \* the files of PowerPointProcessor.tempDir
    procs,              \* the executions of processPowerPoint, one per request
    stage,              \* state of the glossary flow of one document
    docContext,         \* the DocumentContext stage 1 produced
    terms,              \* the GlossaryTerm list stage 2 produced
    trace,              \* history: the calls the handlers made, the failures they met
    app,                \* the state of the App component (its useState values)
    fetches             \* the requests of the App that are in flight

vars == <<segmentIdCounter, calls, slides, allSegments, segments, createdIds,
          fn, input, result, pc, request, pptData, analyzedSlides, response,
          now, tempFiles, procs, stage, docContext, terms,
          trace, app, fetches>>

engineVars == <<segmentIdCounter, calls, slides, allSegments, segments, createdIds>>

callVars == <<fn, input, result>>

flowVars == <<pc, request, pptData, analyzedSlides, response>>

tempVars == <<now, tempFiles, procs>>

glossaryVars == <<stage, docContext, terms>>

appVars == <<app, fetches>>

handlerVars == <<flowVars, tempVars, glossaryVars, trace, appVars>>

----------------------------------------------------------------------------
(* Generic helpers *)

Min(a, b) == IF a <= b THEN a ELSE b
Max(a, b) == IF a >= b THEN a ELSE b

Range(s) == {s[i] : i \in 1..Len(s)}

\* All sequences over S of length at most n.
SeqsUpTo(S, n) == UNION {[1..k -> S] : k \in 0..n}

RECURSIVE MinOf(_)
MinOf(s) == IF Len(s) = 1 THEN s[1] ELSE Min(s[1], MinOf(Tail(s)))

RECURSIVE MaxOf(_)
\* The element of a one-element set.  {e : x \in {v}} computes v once and
\* names its value x; The(...) is then the value of e.
The(S) == CHOOSE x \in S : TRUE

MaxOf(s) == IF Len(s) = 1 THEN s[1] ELSE Max(s[1], MaxOf(Tail(s)))

----------------------------------------------------------------------------
(* Geometry: segmentation-engine.js *)

Box(x, y, w, h) == [x |-> x, y |-> y, width |-> w, height |-> h]

\* The product of the two extents without the test that they are positive.
calculateOverlapNoCheck(box1, box2) ==
    LET left   == Max(box1.x, box2.x)
        right  == Min(box1.x + box1.width, box2.x + box2.width)
        top    == Max(box1.y, box2.y)
        bottom == Min(box1.y + box1.height, box2.y + box2.height)
    IN  (right - left) * (bottom - top)

calculateOverlap(box1, box2) ==
    LET left   == Max(box1.x, box2.x)
        right  == Min(box1.x + box1.width, box2.x + box2.width)
        top    == Max(box1.y, box2.y)
        bottom == Min(box1.y + box1.height, box2.y + box2.height)
    IN  IF left < right /\ top < bottom
        THEN (right - left) * (bottom - top)
        ELSE 0

isWithinBounds(elementBox, contextBox) ==
    /\ elementBox.x >= contextBox.x
    /\ elementBox.y >= contextBox.y
    /\ elementBox.x + elementBox.width <= contextBox.x + contextBox.width
    /\ elementBox.y + elementBox.height <= contextBox.y + contextBox.height

\* A union box whose width and height are the far edges themselves.
calculateCombinedBoundingBoxNoOffset(elements) ==
    IF Len(elements) = 0
    THEN Box(0, 0, 0, 0)
    ELSE LET minX == MinOf([i \in 1..Len(elements) |-> elements[i].boundingBox.x])
             minY == MinOf([i \in 1..Len(elements) |-> elements[i].boundingBox.y])
             maxX == MaxOf([i \in 1..Len(elements) |->
                        elements[i].boundingBox.x + elements[i].boundingBox.width])
             maxY == MaxOf([i \in 1..Len(elements) |->
                        elements[i].boundingBox.y + elements[i].boundingBox.height])
         IN  Box(minX, minY, maxX, maxY)

calculateCombinedBoundingBox(elements) ==
    IF Len(elements) = 0
    THEN Box(0, 0, 0, 0)
    ELSE LET minX == MinOf([i \in 1..Len(elements) |-> elements[i].boundingBox.x])
             minY == MinOf([i \in 1..Len(elements) |-> elements[i].boundingBox.y])
             maxX == MaxOf([i \in 1..Len(elements) |->
                        elements[i].boundingBox.x + elements[i].boundingBox.width])
             maxY == MaxOf([i \in 1..Len(elements) |->
                        elements[i].boundingBox.y + elements[i].boundingBox.height])
         IN  Box(minX, minY, maxX - minX, maxY - minY)

----------------------------------------------------------------------------
(* Strings: a string is a sequence of one-character strings *)

Digit(d) ==
    CASE d = 0 -> "0" [] d = 1 -> "1" [] d = 2 -> "2" [] d = 3 -> "3"
      [] d = 4 -> "4" [] d = 5 -> "5" [] d = 6 -> "6" [] d = 7 -> "7"
      [] d = 8 -> "8" [] d = 9 -> "9"

\* Number to string of a natural number, as a template literal prints it.
RECURSIVE Dec(_)
Dec(n) == IF n < 10 THEN <<Digit(n)>> ELSE Dec(n \div 10) \o <<Digit(n % 10)>>

\* Array.prototype.join
RECURSIVE Join(_, _)
Join(strs, sep) ==
    IF Len(strs) = 0 THEN <<>>
    ELSE IF Len(strs) = 1 THEN strs[1]
    ELSE strs[1] \o sep \o Join(Tail(strs), sep)

\* String.prototype.includes
includes(text, needle) ==
    \E i \in 0..(Len(text) - Len(needle)) :
        \A j \in 1..Len(needle) : text[i + j] = needle[j]

\* String.prototype.toLowerCase on the letters A to Z
UpperCase == <<"A", "B", "C", "D", "E", "F", "G", "H", "I", "J", "K", "L", "M",
               "N", "O", "P", "Q", "R", "S", "T", "U", "V", "W", "X", "Y", "Z">>

LowerCase == <<"a", "b", "c", "d", "e", "f", "g", "h", "i", "j", "k", "l", "m",
               "n", "o", "p", "q", "r", "s", "t", "u", "v", "w", "x", "y", "z">>

LowerChar(c) ==
    IF \E i \in 1..Len(UpperCase) : UpperCase[i] = c
    THEN LowerCase[CHOOSE i \in 1..Len(UpperCase) : UpperCase[i] = c]
    ELSE c

toLowerCase(text) == [i \in 1..Len(text) |-> LowerChar(text[i])]

----------------------------------------------------------------------------
(* Segment ids: the template literals of segmentation-engine.js *)

CombinedId(slideId, contextId, counter) ==
    <<"s">> \o Dec(slideId) \o <<"_", "v", "c">> \o contextId
        \o <<"_", "c", "o", "m", "b", "i", "n", "e", "d", "_">> \o Dec(counter)

ContextElemId(slideId, contextId, index, counter) ==
    <<"s">> \o Dec(slideId) \o <<"_", "v", "c">> \o contextId
        \o <<"_", "e", "l", "e", "m">> \o Dec(index) \o <<"_">> \o Dec(counter)

\* The id of a standalone segment without the counter.
ElemIdNoCounter(slideId, index, counter) ==
    <<"s">> \o Dec(slideId) \o <<"_", "e", "l", "e", "m">> \o Dec(index)

ElemId(slideId, index, counter) ==
    <<"s">> \o Dec(slideId) \o <<"_", "e", "l", "e", "m">> \o Dec(index)
        \o <<"_">> \o Dec(counter)

MergedId(counter) == <<"m", "e", "r", "g", "e", "d", "_">> \o Dec(counter)

----------------------------------------------------------------------------
(* Optimizer: removeDuplicates, mergeSimilarSegments, sortSegments *)

\* A key that also tells widths apart.
DuplicateKeyWithWidth(segment) ==
    Dec(segment.slideId) \o <<"_">> \o segment.text \o <<"_">>
        \o Dec(segment.coordinates.x) \o <<"_">> \o Dec(segment.coordinates.y)
        \o <<"_">> \o Dec(segment.coordinates.width)

\* The key of removeDuplicates: `${slideId}_${text}_${x}_${y}`
DuplicateKey(segment) ==
    Dec(segment.slideId) \o <<"_">> \o segment.text \o <<"_">>
        \o Dec(segment.coordinates.x) \o <<"_">> \o Dec(segment.coordinates.y)

\* A filter that stops looking after the first duplicate it drops.
removeDuplicatesOnce(segs) ==
    LET dup(i) == \E j \in 1..(i - 1) : DuplicateKey(segs[j]) = DuplicateKey(segs[i])
        keep(i) == ~(dup(i) /\ \A j \in 1..(i - 1) : ~dup(j))
        F[i \in 0..Len(segs)] ==
            IF i = 0 THEN <<>>
            ELSE IF keep(i) THEN Append(F[i - 1], segs[i]) ELSE F[i - 1]
    IN  F[Len(segs)]

\* segments.filter with the seen-set: keep a segment iff no earlier one has its key
removeDuplicates(segs) ==
    LET keep(i) == \A j \in 1..(i - 1) : DuplicateKey(segs[j]) # DuplicateKey(segs[i])
        F[i \in 0..Len(segs)] ==
            IF i = 0 THEN <<>>
            ELSE IF keep(i) THEN Append(F[i - 1], segs[i]) ELSE F[i - 1]
    IN  F[Len(segs)]

MergeThreshold == 50

\* Squared distance between the centres, on doubled coordinates (4 * d^2).
SegmentDistanceSq4(segment1, segment2) ==
    LET box1 == segment1.coordinates
        box2 == segment2.coordinates
        dx == (2 * box1.x + box1.width) - (2 * box2.x + box2.width)
        dy == (2 * box1.y + box1.height) - (2 * box2.y + box2.height)
    IN  dx * dx + dy * dy

\* areSegmentsSimilar with the threshold included.
areSegmentsSimilarInclusive(segment1, segment2) ==
    IF segment1.slideId # segment2.slideId
       \/ segment1.visualContext # segment2.visualContext
    THEN FALSE
    ELSE SegmentDistanceSq4(segment1, segment2)
            <= 4 * MergeThreshold * MergeThreshold

areSegmentsSimilar(segment1, segment2) ==
    IF segment1.slideId # segment2.slideId
       \/ segment1.visualContext # segment2.visualContext
    THEN FALSE
    ELSE SegmentDistanceSq4(segment1, segment2)
            < 4 * MergeThreshold * MergeThreshold

\* mergeSegments with the ids recorded last to first.
mergeSegmentsReversedIds(segs, counter) ==
    LET firstSegment == segs[1]
        combinedText == Join([i \in 1..Len(segs) |-> segs[i].text], <<" ">>)
        combinedBoundingBox == calculateCombinedBoundingBox(
            [i \in 1..Len(segs) |-> [boundingBox |-> segs[i].coordinates]])
    IN  [firstSegment EXCEPT
            !.id = MergedId(counter),
            !.text = combinedText,
            !.coordinates = combinedBoundingBox,
            !.isMerged = TRUE,
            !.originalSegments = [i \in 1..Len(segs) |-> segs[Len(segs) + 1 - i].id]]

mergeSegments(segs, counter) ==
    LET firstSegment == segs[1]
        combinedText == Join([i \in 1..Len(segs) |-> segs[i].text], <<" ">>)
        combinedBoundingBox == calculateCombinedBoundingBox(
            [i \in 1..Len(segs) |-> [boundingBox |-> segs[i].coordinates]])
    IN  [firstSegment EXCEPT
            !.id = MergedId(counter),
            !.text = combinedText,
            !.coordinates = combinedBoundingBox,
            !.isMerged = TRUE,
            !.originalSegments = [i \in 1..Len(segs) |-> segs[i].id]]

\* An inner loop that does not look at the processed set.
RECURSIVE SimilarIndexesIgnoringProcessed(_, _, _, _)
SimilarIndexesIgnoringProcessed(segs, index, processed, otherIndex) ==
    IF otherIndex > Len(segs) THEN <<>>
    ELSE IF otherIndex = index
    THEN SimilarIndexesIgnoringProcessed(segs, index, processed, otherIndex + 1)
    ELSE IF areSegmentsSimilar(segs[index], segs[otherIndex])
    THEN <<otherIndex>>
            \o SimilarIndexesIgnoringProcessed(segs, index, processed, otherIndex + 1)
    ELSE SimilarIndexesIgnoringProcessed(segs, index, processed, otherIndex + 1)

\* The indexes the inner forEach of mergeSimilarSegments collects for the
\* segment at `index`: every other index not yet processed whose segment is similar.
RECURSIVE SimilarIndexes(_, _, _, _)
SimilarIndexes(segs, index, processed, otherIndex) ==
    IF otherIndex > Len(segs) THEN <<>>
    ELSE IF otherIndex \in processed \/ otherIndex = index
    THEN SimilarIndexes(segs, index, processed, otherIndex + 1)
    ELSE IF areSegmentsSimilar(segs[index], segs[otherIndex])
    THEN <<otherIndex>> \o SimilarIndexes(segs, index, processed, otherIndex + 1)
    ELSE SimilarIndexes(segs, index, processed, otherIndex + 1)

\* The outer forEach; returns the merged list and the advanced id counter.
RECURSIVE MergeLoop(_, _, _, _, _)
MergeLoop(segs, index, processed, merged, counter) ==
    IF index > Len(segs) THEN [list |-> merged, counter |-> counter]
    ELSE IF index \in processed
    THEN MergeLoop(segs, index + 1, processed, merged, counter)
    ELSE The({
            LET similarSegments ==
                    <<segs[index]>> \o [k \in 1..Len(others) |-> segs[others[k]]]
            IN  The({
                    IF Len(similarSegments) > 1
                    THEN MergeLoop(segs, index + 1, done, next, counter + 1)
                    ELSE MergeLoop(segs, index + 1, done, next, counter)
                    : done \in {processed \cup {index} \cup Range(others)},
                      next \in {IF Len(similarSegments) > 1
                                THEN Append(merged, mergeSegments(similarSegments, counter))
                                ELSE Append(merged, segs[index])} })
            : others \in {SimilarIndexes(segs, index, processed \cup {index}, 1)} })

mergeSimilarSegments(segs, counter) == MergeLoop(segs, 1, {}, <<>>, counter)

\* The comparator without its last step, the comparison of x.
SortCompareNoX(a, b) ==
    IF a.slideId # b.slideId THEN a.slideId - b.slideId
    ELSE IF a.coordinates.y # b.coordinates.y THEN a.coordinates.y - b.coordinates.y
    ELSE 0

\* The comparator of sortSegments.
SortCompare(a, b) ==
    IF a.slideId # b.slideId THEN a.slideId - b.slideId
    ELSE IF a.coordinates.y # b.coordinates.y THEN a.coordinates.y - b.coordinates.y
    ELSE a.coordinates.x - b.coordinates.x

\* Insert `a` after the last element it does not precede (stable).
RECURSIVE SortInsert(_, _)
SortInsert(sorted, a) ==
    IF Len(sorted) = 0 THEN <<a>>
    ELSE IF SortCompare(sorted[Len(sorted)], a) > 0
    THEN The({ Append(SortInsert(front, a), sorted[Len(sorted)])
               : front \in {SubSeq(sorted, 1, Len(sorted) - 1)} })
    ELSE Append(sorted, a)

\* The first i segments in sorted order.
RECURSIVE SortFirst(_, _)
SortFirst(segs, i) ==
    IF i = 0 THEN <<>>
    ELSE The({ SortInsert(sorted, segs[i]) : sorted \in {SortFirst(segs, i - 1)} })

\* Array.prototype.sort (stable) with SortCompare.
sortSegments(segs) == SortFirst(segs, Len(segs))

\* Returns the optimized list and the advanced id counter.
optimizeSegmentation(segs, counter) ==
    The({ The({ The({ [list |-> sortedSegments, counter |-> m.counter]
                      : sortedSegments \in {sortSegments(m.list)} })
                : m \in {mergeSimilarSegments(uniqueSegments, counter)} })
          : uniqueSegments \in {removeDuplicates(segs)} })

----------------------------------------------------------------------------
(* Region assignment: findBestVisualContext and its score *)

Null == [null |-> TRUE]

\* The characters /[\s\-_]/ matches, among those the model uses.
IsSeparator(c) == c \in {" ", "-", "_"}

\* String.prototype.split(/[\s\-_]+/): the pieces between maximal runs of
\* separators; a leading or trailing run leaves an empty piece, "" gives [""].
RECURSIVE SplitFrom(_, _, _, _, _)
SplitFrom(str, i, tokens, cur, inSep) ==
    IF i > Len(str) THEN Append(tokens, cur)
    ELSE IF IsSeparator(str[i])
    THEN IF inSep THEN SplitFrom(str, i + 1, tokens, cur, TRUE)
         ELSE SplitFrom(str, i + 1, Append(tokens, cur), <<>>, TRUE)
    ELSE SplitFrom(str, i + 1, tokens, Append(cur, str[i]), FALSE)

Split(str) == SplitFrom(str, 1, <<>>, <<>>, FALSE)

KeywordMinLength == 2

\* Number of keywords longer than 2 characters that occur in the text.
CountMatches(keywords, elementText) ==
    Cardinality({k \in 1..Len(keywords) :
        Len(keywords[k]) > KeywordMinLength /\ includes(elementText, keywords[k])})

\* calculateSemanticSimilarity is (matches / totalKeywords) * 0.2; the model
\* returns the exact fraction [num, den] = matches / totalKeywords, and the
\* factor 0.2 is applied in calculateContextScore.  A missing or empty topic
\* and an empty text give 0.
calculateSemanticSimilarity(element, context) ==
    IF Len(context.topic) = 0 \/ Len(element.text) = 0
    THEN [num |-> 0, den |-> 1]
    ELSE LET elementText == toLowerCase(element.text)
             topicKeywords == Split(toLowerCase(context.topic))
             contextKeywords == Split(toLowerCase(context.semanticContext))
             matches == CountMatches(topicKeywords, elementText)
                            + CountMatches(contextKeywords, elementText)
             totalKeywords == Len(topicKeywords) + Len(contextKeywords)
         IN  IF totalKeywords > 0
             THEN [num |-> matches, den |-> totalKeywords]
             ELSE [num |-> 0, den |-> 1]

\* A score is an exact fraction, or NaN (0 / 0 when both areas are 0):
\*   overlap / max(areas) + (0.3 if within) + semantic * 0.2
\*     = (10 t o + 3 w M t + 2 m M) / (10 M t)        with semantic = m / t
calculateContextScore(element, context) ==
    LET elementBox == element.boundingBox
        contextBox == context.boundingBox
        overlap == calculateOverlap(elementBox, contextBox)
        elementArea == elementBox.width * elementBox.height
        contextArea == contextBox.width * contextBox.height
        maxArea == Max(elementArea, contextArea)
        within == IF isWithinBounds(elementBox, contextBox) THEN 3 ELSE 0
        sem == calculateSemanticSimilarity(element, context)
    IN  IF maxArea = 0
        THEN [nan |-> TRUE, num |-> 0, den |-> 1]
        ELSE [nan |-> FALSE,
              num |-> 10 * sem.den * overlap + within * maxArea * sem.den
                        + 2 * sem.num * maxArea,
              den |-> 10 * maxArea * sem.den]

\* The sign of a/b - c/d for naturals a, c and positive b, d, computed on the
\* quotients and remainders so that no product leaves the integer range.
RECURSIVE FracCompare(_, _, _, _)
FracCompare(a, b, c, d) ==
    IF a \div b > c \div d THEN 1
    ELSE IF a \div b < c \div d THEN -1
    ELSE IF a % b = 0 /\ c % d = 0 THEN 0
    ELSE IF a % b = 0 THEN -1
    ELSE IF c % d = 0 THEN 1
    ELSE The({ FracCompare(d, r2, b, r1) : r1 \in {a % b}, r2 \in {c % d} })

\* a > b on scores; every comparison with NaN is false.
ScoreGreater(a, b) ==
    ~a.nan /\ ~b.nan /\ FracCompare(a.num, a.den, b.num, b.den) = 1

ZeroScore == [nan |-> FALSE, num |-> 0, den |-> 1]

\* A loop that never raises bestScore above 0.
RECURSIVE BestFromNoScoreUpdate(_, _, _, _, _)
BestFromNoScoreUpdate(element, visualContexts, i, bestIndex, bestScore) ==
    IF i > Len(visualContexts) THEN bestIndex
    ELSE LET score == calculateContextScore(element, visualContexts[i])
         IN  IF ScoreGreater(score, bestScore)
             THEN BestFromNoScoreUpdate(element, visualContexts, i + 1, i, bestScore)
             ELSE BestFromNoScoreUpdate(element, visualContexts, i + 1, bestIndex, bestScore)

\* A loop that takes a context whose score equals the best so far.
RECURSIVE BestFromOrEqual(_, _, _, _, _)
BestFromOrEqual(element, visualContexts, i, bestIndex, bestScore) ==
    IF i > Len(visualContexts) THEN bestIndex
    ELSE LET score == calculateContextScore(element, visualContexts[i])
         IN  IF ~score.nan /\ ~ScoreGreater(bestScore, score)
             THEN BestFromOrEqual(element, visualContexts, i + 1, i, score)
             ELSE BestFromOrEqual(element, visualContexts, i + 1, bestIndex, bestScore)

\* The forEach of findBestVisualContext: index of the best context so far
\* (0 = null) and its score.
RECURSIVE BestFrom(_, _, _, _, _)
BestFrom(element, visualContexts, i, bestIndex, bestScore) ==
    IF i > Len(visualContexts) THEN bestIndex
    ELSE The({ IF ScoreGreater(score, bestScore)
               THEN BestFrom(element, visualContexts, i + 1, i, score)
               ELSE BestFrom(element, visualContexts, i + 1, bestIndex, bestScore)
               : score \in {calculateContextScore(element, visualContexts[i])} })

BestIndex(element, visualContexts) ==
    BestFrom(element, visualContexts, 1, 0, ZeroScore)

findBestVisualContext(element, visualContexts) ==
    The({ IF b = 0 THEN Null ELSE visualContexts[b]
          : b \in {BestIndex(element, visualContexts)} })

----------------------------------------------------------------------------
(* Classifier fallback: inferVisualContext *)

TitleFontSize == 20
TitleMaxLength == 100
CaptionMaxLength == 200

\* element.fontSize || 12: a fragment without a font size (0 here) counts as 12.
DefaultFontSize == 12

FontSizeOf(element) == IF element.fontSize = 0 THEN DefaultFontSize ELSE element.fontSize

\* The bullet literal of segmentation-engine.js line 262 is the three
\* characters U+00E2 U+20AC U+00A2 (a mis-decoded bullet), not U+2022.
EngineBullet == <<"â", "€", "¢">>

inferVisualContext(element) ==
    LET text == toLowerCase(element.text)
    IN  IF (FontSizeOf(element) >= TitleFontSize \/ element.isBold)
           /\ Len(text) < TitleMaxLength /\ ~includes(text, <<".">>)
        THEN "title_group"
        ELSE IF includes(text, EngineBullet) \/ includes(text, <<"-">>)
                \/ includes(text, <<"*">>)
        THEN "bullet_list"
        ELSE IF Len(text) < CaptionMaxLength
                /\ (includes(text, <<"f", "i", "g", "u", "r", "e">>)
                    \/ includes(text, <<"t", "a", "b", "l", "e">>))
        THEN "caption"
        ELSE "body_text"

----------------------------------------------------------------------------
(* Grouping: groupElementsByVisualContext and the semantic region merge *)

\* A Map is a sequence of [key, value] in insertion order.
MapIndex(map, key) ==
    IF \E i \in 1..Len(map) : map[i].key = key
    THEN CHOOSE i \in 1..Len(map) : map[i].key = key
    ELSE 0

\* Map.prototype.set: an existing key keeps its place and takes the new value.
MapSet(map, key, value) ==
    IF MapIndex(map, key) = 0
    THEN Append(map, [key |-> key, value |-> value])
    ELSE [map EXCEPT ![MapIndex(map, key)].value = value]

\* contextGroups after the first forEach: one empty group per context id.
RECURSIVE InitGroups(_, _, _)
InitGroups(visualContexts, i, map) ==
    IF i > Len(visualContexts) THEN map
    ELSE The({ InitGroups(visualContexts, i + 1, next)
               : next \in {MapSet(map, visualContexts[i].id,
                               [context |-> visualContexts[i],
                                elements |-> <<>>,
                                boundingBox |-> visualContexts[i].boundingBox,
                                topic |-> visualContexts[i].topic,
                                semanticContext |-> visualContexts[i].semanticContext])} })

\* AssignElements with an element that has no best context pushed to the
\* first group.
RECURSIVE AssignElementsNullToFirst(_, _, _, _)
AssignElementsNullToFirst(textElements, visualContexts, i, map) ==
    IF i > Len(textElements) THEN map
    ELSE The({
            LET g == IF bestContext = Null THEN Min(1, Len(map))
                     ELSE MapIndex(map, bestContext.id)
            IN  The({ AssignElementsNullToFirst(textElements, visualContexts, i + 1, next)
                      : next \in {IF g = 0 THEN map
                                  ELSE [map EXCEPT ![g].value.elements =
                                                      Append(@, textElements[i])]} })
            : bestContext \in {findBestVisualContext(textElements[i], visualContexts)} })

\* The second forEach: each element is pushed to the group of its best context.
RECURSIVE AssignElements(_, _, _, _)
AssignElements(textElements, visualContexts, i, map) ==
    IF i > Len(textElements) THEN map
    ELSE The({
            LET g == IF bestContext = Null THEN 0 ELSE MapIndex(map, bestContext.id)
            IN  The({ AssignElements(textElements, visualContexts, i + 1, next)
                      : next \in {IF g = 0 THEN map
                                  ELSE [map EXCEPT ![g].value.elements =
                                                      Append(@, textElements[i])]} })
            : bestContext \in {findBestVisualContext(textElements[i], visualContexts)} })

SemanticMergeThreshold == 200

\* calculateDistance(box1, box2) < 200, on doubled coordinates.
BoxesCloserThan(box1, box2, limit) ==
    LET dx == (2 * box1.x + box1.width) - (2 * box2.x + box2.width)
        dy == (2 * box1.y + box1.height) - (2 * box2.y + box2.height)
    IN  dx * dx + dy * dy < 4 * limit * limit

\* The for loop of mergeSemanticGroups over `groups`, a list of indexes into
\* the map (the group objects are shared with contextGroups, the list is not):
\* the map and the list as the loop leaves them.
RECURSIVE SemanticLoop(_, _, _, _)
SemanticLoop(map, groups, i, topic) ==
    IF i > Len(groups) - 1 THEN [map |-> map, groups |-> groups]
    ELSE LET group1 == map[groups[i]].value
             group2 == map[groups[i + 1]].value
         IN  IF BoxesCloserThan(group1.boundingBox, group2.boundingBox,
                                SemanticMergeThreshold)
             THEN LET pushed == group1.elements \o group2.elements
                      merged == [group1 EXCEPT
                          !.elements = pushed,
                          !.boundingBox =
                              calculateCombinedBoundingBox(pushed \o group2.elements),
                          !.semanticContext =
                              <<"C", "o", "m", "b", "i", "n", "e", "d", " ">>
                                  \o topic \o <<" ", "c", "o", "n", "t", "e", "x", "t">>]
                  IN  The({ SemanticLoop(nextMap, nextGroups, i, topic)
                            : nextMap \in {[map EXCEPT ![groups[i]].value = merged]},
                              nextGroups \in {SubSeq(groups, 1, i)
                                                \o SubSeq(groups, i + 2, Len(groups))} })
             ELSE SemanticLoop(map, groups, i + 1, topic)

Perms(n) == {p \in [1..n -> 1..n] : \A i, j \in 1..n : i # j => p[i] # p[j]}

\* Doubled centre of a group's bounding box.
Centre2(group) ==
    <<2 * group.boundingBox.x + group.boundingBox.width,
      2 * group.boundingBox.y + group.boundingBox.height>>

\* groups.sort((a, b) => distance): the comparator never returns a negative
\* number, so unless every distance is 0 it is not a consistent comparator and
\* the resulting order is implementation-defined.  `perm`, a permutation of
\* the map positions, is the order chosen: the groups are listed by
\* increasing perm value.
SortedGroups(map, groups, perm) ==
    IF \A i, j \in 1..Len(groups) :
          Centre2(map[groups[i]].value) = Centre2(map[groups[j]].value)
    THEN groups
    ELSE [k \in 1..Len(groups) |->
            CHOOSE g \in Range(groups) :
                Cardinality({h \in Range(groups) : perm[h] < perm[g]}) = k - 1]

mergeSemanticGroups(map, groups, topic, perm) ==
    The({ SemanticLoop(map, sorted, 1, topic)
          : sorted \in {SortedGroups(map, groups, perm)} })

\* The indexes of the groups whose topic is `topic`, in map order.
GroupsOfTopic(map, topic) ==
    LET F[i \in 0..Len(map)] ==
            IF i = 0 THEN <<>>
            ELSE IF map[i].value.topic = topic THEN Append(F[i - 1], i) ELSE F[i - 1]
    IN  F[Len(map)]

\* The position in the map at which each topic is first seen.
FirstOfTopic(map, i) ==
    Len(map[i].value.topic) > 0
    /\ \A j \in 1..(i - 1) : map[j].value.topic # map[i].value.topic

\* applySemanticGrouping: the topics in first-seen order; a topic shared by
\* more than one group has its groups merged.
RECURSIVE ApplyFrom(_, _, _)
ApplyFrom(map, i, perm) ==
    IF i > Len(map) THEN map
    ELSE IF FirstOfTopic(map, i) /\ Len(GroupsOfTopic(map, map[i].value.topic)) > 1
    THEN The({ ApplyFrom(next, i + 1, perm)
               : next \in {The({ mergeSemanticGroups(map, groups, map[i].value.topic, perm).map
                                 : groups \in {GroupsOfTopic(map, map[i].value.topic)} })} })
    ELSE ApplyFrom(map, i + 1, perm)

applySemanticGrouping(map, perm) == ApplyFrom(map, 1, perm)

groupElementsByVisualContext(textElements, visualContexts, perm) ==
    The({ The({ applySemanticGrouping(contextGroups, perm)
                : contextGroups \in {AssignElements(textElements, visualContexts, 1, empty)} })
          : empty \in {InitGroups(visualContexts, 1, <<>>)} })

----------------------------------------------------------------------------
(* Segment builder: createContextSegments, createTextElementSegment *)

Individual == <<"i", "n", "d", "i", "v", "i", "d", "u", "a", "l">>

NoSegments == <<>>

\* createContextSegments with the combined segment given the box of the
\* group's first element.
createContextSegmentsFirstBox(group, slideId, contextId, counter) ==
    LET context == group.context
        elements == group.elements
    IN  IF Len(elements) = 0 THEN [list |-> NoSegments, counter |-> counter]
        ELSE LET combinedSegment ==
                     [id |-> CombinedId(slideId, contextId, counter),
                      slideId |-> slideId,
                      textElementId |-> <<"v", "c">> \o contextId
                          \o <<"_", "c", "o", "m", "b", "i", "n", "e", "d">>,
                      visualContextId |-> contextId,
                      coordinates |-> elements[1].boundingBox,
                      text |-> Join([i \in 1..Len(elements) |-> elements[i].text], <<" ">>),
                      visualContext |-> context.type,
                      confidence |-> "high",
                      isCombined |-> TRUE,
                      elementCount |-> Len(elements),
                      isMerged |-> FALSE,
                      originalSegments |-> <<>>]
                 individual(index) ==
                     [id |-> ContextElemId(slideId, contextId, index, counter + 1 + index),
                      slideId |-> slideId,
                      textElementId |-> elements[index + 1].id,
                      visualContextId |-> contextId,
                      coordinates |-> elements[index + 1].boundingBox,
                      text |-> elements[index + 1].text,
                      visualContext |-> context.type,
                      confidence |-> "medium",
                      isCombined |-> FALSE,
                      elementCount |-> 0,
                      isMerged |-> FALSE,
                      originalSegments |-> <<>>]
             IN  [list |-> <<combinedSegment>>
                            \o [k \in 1..Len(elements) |-> individual(k - 1)],
                  counter |-> counter + 1 + Len(elements)]

createContextSegments(group, slideId, contextId, counter) ==
    LET context == group.context
        elements == group.elements
    IN  IF Len(elements) = 0 THEN [list |-> NoSegments, counter |-> counter]
        ELSE LET combinedSegment ==
                     [id |-> CombinedId(slideId, contextId, counter),
                      slideId |-> slideId,
                      textElementId |-> <<"v", "c">> \o contextId
                          \o <<"_", "c", "o", "m", "b", "i", "n", "e", "d">>,
                      visualContextId |-> contextId,
                      coordinates |-> calculateCombinedBoundingBox(elements),
                      text |-> Join([i \in 1..Len(elements) |-> elements[i].text], <<" ">>),
                      visualContext |-> context.type,
                      confidence |-> "high",
                      isCombined |-> TRUE,
                      elementCount |-> Len(elements),
                      isMerged |-> FALSE,
                      originalSegments |-> <<>>]
                 individual(index) ==
                     [id |-> ContextElemId(slideId, contextId, index, counter + 1 + index),
                      slideId |-> slideId,
                      textElementId |-> elements[index + 1].id,
                      visualContextId |-> contextId,
                      coordinates |-> elements[index + 1].boundingBox,
                      text |-> elements[index + 1].text,
                      visualContext |-> context.type,
                      confidence |-> "medium",
                      isCombined |-> FALSE,
                      elementCount |-> 0,
                      isMerged |-> FALSE,
                      originalSegments |-> <<>>]
             IN  [list |-> <<combinedSegment>>
                            \o [k \in 1..Len(elements) |-> individual(k - 1)],
                  counter |-> counter + 1 + Len(elements)]

createTextElementSegment(element, slideId, index, counter) ==
    [id |-> ElemId(slideId, index, counter),
     slideId |-> slideId,
     textElementId |-> element.id,
     visualContextId |-> Individual,
     coordinates |-> element.boundingBox,
     text |-> element.text,
     visualContext |-> inferVisualContext(element),
     confidence |-> "medium",
     isCombined |-> FALSE,
     elementCount |-> 0,
     isMerged |-> FALSE,
     originalSegments |-> <<>>]

\* contextGroups.forEach of processSlideSegmentation.
RECURSIVE ContextSegmentsFrom(_, _, _, _, _)
ContextSegmentsFrom(map, i, slideId, acc, counter) ==
    IF i > Len(map) THEN [list |-> acc, counter |-> counter]
    ELSE The({ The({ ContextSegmentsFrom(map, i + 1, slideId, next, r.counter)
                     : next \in {acc \o r.list} })
               : r \in {createContextSegments(map[i].value, slideId, map[i].key, counter)} })

processSlideSegmentation(slide, counter, perm) ==
    The({ The({
            LET n == Len(slide.textElements)
            IN  [list |-> c.list \o [k \in 1..n |->
                             createTextElementSegment(slide.textElements[k], slide.slideId,
                                                      k - 1, c.counter + k - 1)],
                 counter |-> c.counter + n]
            : c \in {ContextSegmentsFrom(contextGroups, 1, slide.slideId, <<>>, counter)} })
          : contextGroups \in {groupElementsByVisualContext(slide.textElements,
                                                            slide.visualContexts, perm)} })

\* slides.forEach of generateSegmentation: allSegments and the advanced counter.
RECURSIVE AllSegmentsFrom(_, _, _, _, _)
AllSegmentsFrom(slideList, i, acc, counter, perms) ==
    IF i > Len(slideList) THEN [list |-> acc, counter |-> counter]
    ELSE The({ The({ AllSegmentsFrom(slideList, i + 1, next, r.counter, perms)
                     : next \in {acc \o r.list} })
               : r \in {processSlideSegmentation(slideList[i], counter, perms[i])} })

generateSegmentation(slideList, counter, perms) ==
    The({ The({ [all |-> a.list, list |-> o.list, counter |-> o.counter]
                : o \in {optimizeSegmentation(a.list, a.counter)} })
          : a \in {AllSegmentsFrom(slideList, 1, <<>>, counter, perms)} })

----------------------------------------------------------------------------
(* Inputs: the fragments, regions and slides the engine is run on *)

MaxElems == 2       \* fragments per slide
MaxCalls == 3       \* generateSegmentation calls on one engine instance

Element(id, text, box, fontSize, isBold) ==
    [id |-> id, text |-> text, boundingBox |-> box,
     fontSize |-> fontSize, isBold |-> isBold]

Region(id, type, box, topic, semanticContext) ==
    [id |-> id, type |-> type, boundingBox |-> box,
     topic |-> topic, semanticContext |-> semanticContext]

Slide(slideId, textElements, visualContexts) ==
    [slideId |-> slideId, textElements |-> textElements,
     visualContexts |-> visualContexts]

B0 == Box(0, 0, 0, 0)            \* a shape without bounds (processSlide's default)
B1 == Box(100, 50, 600, 30)
B2 == Box(100, 90, 600, 30)      \* centre 40 below B1's
B3 == Box(100, 200, 600, 30)
B4 == Box(120, 50, 600, 30)      \* same y as B1, centre 20 to the right

T1 == Element(<<"t", "1">>, <<"A", "b">>, B1, 24, TRUE)
T2 == Element(<<"t", "2">>, <<"c", "d">>, B2, 12, FALSE)
T3 == Element(<<"t", "3">>, <<"-", "x">>, B3, 12, FALSE)
T4 == Element(<<"t", "4">>, <<"c", "d">>, B4, 12, FALSE)
T5 == Element(<<"t", "5">>, <<"a", "b", "c">>, B0, 12, FALSE)
T6 == Element(<<"t", "6">>, <<"A", "b">>, B1, 12, FALSE)

ElementPool == {T1, T2, T3, T4, T5, T6}

R1 == Region(<<"r", "1">>, "title_group", Box(0, 0, 800, 85), <<"a", "b", "c">>, <<>>)
R2 == Region(<<"r", "2">>, "body_text", Box(0, 85, 800, 200), <<"a", "b", "c">>,
             <<"c", "d", " ", "x">>)
R3 == Region(<<"r", "3">>, "body_text", Box(0, 400, 800, 100), <<"x", "y", "z">>, <<>>)
R4 == Region(<<"r", "4">>, "caption", Box(90, 40, 700, 100), <<>>, <<>>)

RegionLists == {<<>>, <<R1>>, <<R4>>, <<R1, R2>>, <<R2, R1>>, <<R1, R3>>, <<R4, R1, R2>>}

\* One slide with any fragments, or two slides (in either slideId order) with
\* fragments that lie close to each other.
SingleSlides ==
    {Slide(id, els, rs) : id \in 1..2, els \in SeqsUpTo(ElementPool, MaxElems),
                          rs \in RegionLists}

PairSlides ==
    {Slide(id, els, rs) : id \in 1..2, els \in SeqsUpTo({T1, T2, T4}, 2),
                          rs \in {<<>>, <<R4>>}}

RunInputs == {<<s>> : s \in SingleSlides} \cup {<<s, t>> : s, t \in PairSlides}

\* The slides a long-lived engine instance is called with.
CallSlides == {Slide(1, <<T1, T2>>, <<R1, R2>>), Slide(2, <<T2, T4>>, <<>>)}

CallInputs == SeqsUpTo(CallSlides, 2)

\* The orders the sort of mergeSemanticGroups may leave a slide's groups in:
\* one permutation of the slide's regions (only looked at when two regions
\* share a topic).
SharesTopic(slide) ==
    \E i, j \in 1..Len(slide.visualContexts) :
        /\ i # j
        /\ Len(slide.visualContexts[i].topic) > 0
        /\ slide.visualContexts[i].topic = slide.visualContexts[j].topic

SlidePerms(slide) ==
    IF SharesTopic(slide) THEN Perms(Len(slide.visualContexts))
    ELSE {[i \in 1..Len(slide.visualContexts) |-> i]}

PermChoices(slideList) ==
    {ps \in [1..Len(slideList) -> UNION {SlidePerms(slideList[i]) : i \in 1..Len(slideList)}] :
        \A i \in 1..Len(slideList) : ps[i] \in SlidePerms(slideList[i])}

-----------------------------------------------------------------------------
(* The visual flow: POST /api/analyze-powerpoint *)

\* The character U+2022, which the module's strings cannot hold as it is.
Bullet == "U+2022"

\* String.prototype.trim
IsSpace(c) == c \in {" ", "\n", "\t"}

RECURSIVE trimStart(_)
trimStart(text) ==
    IF Len(text) > 0 /\ IsSpace(text[1]) THEN trimStart(Tail(text)) ELSE text

RECURSIVE trimEnd(_)
trimEnd(text) ==
    IF Len(text) > 0 /\ IsSpace(text[Len(text)])
    THEN trimEnd(SubSeq(text, 1, Len(text) - 1))
    ELSE text

trim(text) == trimEnd(trimStart(text))

\* A shape of a parsed slide; fontFamily, color and italic play no part in
\* what follows and are left out.
Shape(text, bounds, fontSize, bold) ==
    [text |-> text, bounds |-> bounds, fontSize |-> fontSize, bold |-> bold]

\* index is 0-based.  The height is text.length * 0.8 clamped to 40..120,
\* an integer whenever the length is a multiple of 5 or at most 50.
estimateBounds(index, text) ==
    Box(100, 50 + index * 80, 600, Max(40, Min(120, (Len(text) * 4) \div 5)))

estimateFontSize(text) ==
    IF Len(text) < 50 THEN 24
    ELSE IF Len(text) < 200 THEN 18
    ELSE 14

isLikelyBold(text) ==
    Len(text) < 100 /\ ~includes(text, <<".">>) /\ ~includes(text, <<",">>)

convertTextToShapes(textContent) ==
    [i \in 1..Len(textContent) |->
        Shape(textContent[i], estimateBounds(i - 1, textContent[i]),
              estimateFontSize(textContent[i]), isLikelyBold(textContent[i]))]

\* The slides parsePresentation builds from the parser's text content.
parsePresentation(textContent) ==
    [i \in 1..Len(textContent) |-> [shapes |-> convertTextToShapes(textContent[i])]]

\* The slides parsePresentation falls back to when the parser throws.
createMockPresentation ==
    << [shapes |-> <<
          Shape(<<"C", "o", "m", "p", "a", "n", "y", " ", "O", "v", "e", "r", "v", "i",
              "e", "w">>, Box(100, 50, 600, 80), 24, TRUE),
          Shape(<<"W", "e", "l", "c", "o", "m", "e", " ", "t", "o", " ", "o", "u", "r",
              " ", "p", "r", "e", "s", "e", "n", "t", "a", "t", "i", "o", "n", " ", "a",
              "b", "o", "u", "t", " ", "o", "u", "r", " ", "c", "o", "m", "p", "a", "n",
              "y", "'", "s", " ", "m", "i", "s", "s", "i", "o", "n", " ", "a", "n", "d",
              " ", "v", "i", "s", "i", "o", "n", " ", "f", "o", "r", " ", "t", "h", "e",
              " ", "f", "u", "t", "u", "r", "e", ".">>, Box(100, 150, 600, 100), 16,
              FALSE),
          Shape(<<"K", "e", "y", " ", "S", "t", "a", "t", "i", "s", "t", "i", "c", "s">>,
              Box(100, 280, 300, 40), 18, TRUE),
          Shape(<<Bullet, " ", "5", "0", "0", "+", " ", "E", "m", "p", "l", "o", "y", "e",
              "e", "s", "\n", Bullet, " ", "5", "0", "+", " ", "C", "o", "u", "n", "t", "r",
              "i", "e", "s", "\n", Bullet, " ", "$", "1", "0", "M", " ", "R", "e", "v", "e",
              "n", "u", "e">>, Box(100, 330, 300, 120), 14, FALSE) >>],
       [shapes |-> <<
          Shape(<<"O", "u", "r", " ", "M", "i", "s", "s", "i", "o", "n">>, Box(100, 50,
              600, 80), 24, TRUE),
          Shape(<<"T", "o", " ", "r", "e", "v", "o", "l", "u", "t", "i", "o", "n", "i",
              "z", "e", " ", "t", "h", "e", " ", "i", "n", "d", "u", "s", "t", "r", "y",
              " ", "t", "h", "r", "o", "u", "g", "h", " ", "i", "n", "n", "o", "v", "a",
              "t", "i", "v", "e", " ", "s", "o", "l", "u", "t", "i", "o", "n", "s", " ",
              "a", "n", "d", " ", "e", "x", "c", "e", "p", "t", "i", "o", "n", "a", "l",
              " ", "c", "u", "s", "t", "o", "m", "e", "r", " ", "s", "e", "r", "v", "i",
              "c", "e", ".">>, Box(100, 150, 600, 100), 16, FALSE),
          Shape(<<"C", "o", "n", "t", "a", "c", "t", " ", "I", "n", "f", "o", "r", "m",
              "a", "t", "i", "o", "n">>, Box(100, 280, 300, 40), 18, TRUE),
          Shape(<<"E", "m", "a", "i", "l", ":", " ", "i", "n", "f", "o", "@", "c", "o",
              "m", "p", "a", "n", "y", ".", "c", "o", "m", "\n", "P", "h", "o", "n", "e",
              ":", " ", "+", "1", "-", "5", "5", "5", "-", "0", "1", "2", "3", "\n", "W",
              "e", "b", "s", "i", "t", "e", ":", " ", "w", "w", "w", ".", "c", "o", "m",
              "p", "a", "n", "y", ".", "c", "o", "m">>, Box(100, 330, 300, 120), 14,
              FALSE) >>] >>

\* `s${slideId}_tb${index + 1}`; index is the 1-based position of the shape.
TextElementId(slideId, index) ==
    <<"s">> \o Dec(slideId) \o <<"_", "t", "b">> \o Dec(index)

\* `${textElement.id}_vc1_xy(${x},${y},${width},${height})`
InitialSegmentId(textElementId, box) ==
    textElementId \o <<"_", "v", "c", "1", "_", "x", "y",
        "(">> \o Dec(box.x) \o <<",">> \o Dec(box.y)
        \o <<",">> \o Dec(box.width) \o <<",">> \o Dec(box.height) \o <<")">>

VisualSegment(id, slideId, textElementId, visualContextId, coordinates, text, visualContext, confidence) ==
    [id |-> id, slideId |-> slideId, textElementId |-> textElementId,
     visualContextId |-> visualContextId, coordinates |-> coordinates,
     text |-> text, visualContext |-> visualContext, confidence |-> confidence]

\* The positions of the shapes that have a text other than white space.
TextShapes(shapes) ==
    SelectSeq([i \in 1..Len(shapes) |-> i], LAMBDA i : Len(trim(shapes[i].text)) > 0)

\* slideImage and overallContext are left out: nothing the model follows
\* reads them.
processSlide(slide, slideId) ==
    LET kept == TextShapes(slide.shapes)
        textElements ==
            [k \in 1..Len(kept) |->
                LET shape == slide.shapes[kept[k]]
                IN  [id |-> TextElementId(slideId, kept[k]),
                     text |-> trim(shape.text),
                     boundingBox |-> shape.bounds,
                     fontSize |-> IF shape.fontSize = 0 THEN 12 ELSE shape.fontSize,
                     isBold |-> shape.bold]]
    IN  [slideId |-> slideId,
         visualContexts |-> <<>>,
         textElements |-> textElements,
         segments |->
            [k \in 1..Len(kept) |->
                VisualSegment(
                    InitialSegmentId(textElements[k].id, textElements[k].boundingBox),
                    slideId, textElements[k].id, <<"v", "c", "1">>,
                    textElements[k].boundingBox, textElements[k].text,
                    "other", "medium")]]

\* The slides of the object processPowerPoint returns.
ProcessedSlides(presentation) ==
    [i \in 1..Len(presentation) |-> processSlide(presentation[i], i)]

\* inferVisualContextType of visual-analyzer.js
inferVisualContextType(element) ==
    LET text == toLowerCase(element.text)
    IN  IF (FontSizeOf(element) >= 20 \/ element.isBold)
           /\ Len(text) < 100 /\ ~includes(text, <<".">>)
        THEN "title_group"
        ELSE IF includes(text, <<Bullet>>) \/ includes(text, <<"-">>)
                \/ includes(text, <<"*">>)
        THEN "bullet_list"
        ELSE IF Len(text) < 200
                /\ (includes(text, <<"f", "i", "g", "u", "r", "e">>) \/ includes(text,
                    <<"t", "a", "b", "l", "e">>))
        THEN "caption"
        ELSE "body_text"

ElementSimilarityDistance == 100

\* calculateElementDistance(element1, element2) < limit, on doubled centres.
ElementsCloserThan(element1, element2, limit) ==
    LET b1 == element1.boundingBox
        b2 == element2.boundingBox
        dx == (2 * b1.x + b1.width) - (2 * b2.x + b2.width)
        dy == (2 * b1.y + b1.height) - (2 * b2.y + b2.height)
    IN  dx * dx + dy * dy < 4 * limit * limit

areElementsSimilar(element1, element2) ==
    LET diff == element1.fontSize - element2.fontSize
    IN  /\ ~((IF diff < 0 THEN -diff ELSE diff) > 4)
        /\ element1.isBold = element2.isBold
        /\ ElementsCloserThan(element1, element2, ElementSimilarityDistance)

\* The inner forEach of groupSimilarElements.
RECURSIVE SimilarElementIndexes(_, _, _, _)
SimilarElementIndexes(textElements, index, processed, otherIndex) ==
    IF otherIndex > Len(textElements) THEN <<>>
    ELSE IF otherIndex \in processed \/ otherIndex = index
    THEN SimilarElementIndexes(textElements, index, processed, otherIndex + 1)
    ELSE IF areElementsSimilar(textElements[index], textElements[otherIndex])
    THEN <<otherIndex>> \o SimilarElementIndexes(textElements, index,
                                processed \cup {otherIndex}, otherIndex + 1)
    ELSE SimilarElementIndexes(textElements, index, processed, otherIndex + 1)

\* The outer forEach of groupSimilarElements.
RECURSIVE GroupLoop(_, _, _, _)
GroupLoop(textElements, index, processed, groups) ==
    IF index > Len(textElements) THEN groups
    ELSE IF index \in processed
    THEN GroupLoop(textElements, index + 1, processed, groups)
    ELSE LET others == SimilarElementIndexes(textElements, index,
                                             processed \cup {index}, 1)
             group == <<textElements[index]>>
                        \o [k \in 1..Len(others) |-> textElements[others[k]]]
         IN  GroupLoop(textElements, index + 1,
                       processed \cup {index} \cup Range(others),
                       Append(groups, group))

groupSimilarElements(textElements) == GroupLoop(textElements, 1, {}, <<>>)

\* A region of a slide in the visual flow; a field the object does not have
\* is the empty string.
VisualContext(id, type, boundingBox, relatedElements, topic, semanticContext) ==
    [id |-> id, type |-> type, boundingBox |-> boundingBox,
     relatedElements |-> relatedElements, topic |-> topic,
     semanticContext |-> semanticContext]

Analysis(visual_areas, visualContexts, textRelationships, segmentationRecommendations) ==
    [visual_areas |-> visual_areas, visualContexts |-> visualContexts,
     textRelationships |-> textRelationships,
     segmentationRecommendations |-> segmentationRecommendations]

mapContentTypeToVisualContext(contentType) ==
    CASE contentType = "title" -> "title_group"
      [] contentType = "body_text" -> "body_text"
      [] contentType = "caption" -> "caption"
      [] contentType = "bullet_list" -> "bullet_list"
      [] contentType = "header_footer" -> "header_footer"
      [] contentType = "callout" -> "callout"
      [] contentType = "navigation" -> "navigation"
      [] OTHER -> "other"

\* The score is in tenths.
mapConfidenceScore(score) ==
    IF score >= 8 THEN "high"
    ELSE IF score >= 5 THEN "medium"
    ELSE "low"

\* The centre of the segment is within the area, on doubled coordinates.
isTextElementInArea(segment, area) ==
    LET c == segment.coordinates
        a == area.coordinates
    IN  /\ 2 * c.x + c.width >= 2 * a.x
        /\ 2 * c.x + c.width <= 2 * (a.x + a.width)
        /\ 2 * c.y + c.height >= 2 * a.y
        /\ 2 * c.y + c.height <= 2 * (a.y + a.height)

\* Array.prototype.find, as the position of the element found, 0 for none:
\* the first position of a set of positions.
FirstOf(positions) ==
    IF positions = {} THEN 0
    ELSE CHOOSE i \in positions : \A j \in positions : i <= j

\* visual_areas.find(area => this.isTextElementInArea(segment, area))
FindArea(areas, segment) ==
    FirstOf({i \in 1..Len(areas) : isTextElementInArea(segment, areas[i])})

\* segmentationRecommendations.find(rec => rec.segmentId.includes(segment.textElementId))
FindRecommendation(recs, segment) ==
    FirstOf({i \in 1..Len(recs) :
                /\ "segmentId" \in DOMAIN recs[i]
                /\ includes(recs[i].segmentId, segment.textElementId)})

\* The find above reaches a recommendation without a segmentId before it finds
\* a match: undefined.includes is a TypeError.
RecommendationThrows(recs, segment) ==
    \E j \in 1..Len(recs) :
        /\ "segmentId" \notin DOMAIN recs[j]
        /\ FindRecommendation(SubSeq(recs, 1, j - 1), segment) = 0

\* The map over slideData.segments throws: a segment in no area is looked up
\* in the recommendations and the lookup throws.
MapThrows(slideData, analysisResult) ==
    \E i \in 1..Len(slideData.segments) :
        /\ FindArea(analysisResult.visual_areas, slideData.segments[i]) = 0
        /\ RecommendationThrows(analysisResult.segmentationRecommendations,
                                slideData.segments[i])

\* The first relationship without elements, 0 for none: relationship.elements
\* .length is a TypeError there.
FirstBadRelationship(rels) ==
    FirstOf({k \in 1..Len(rels) : "elements" \notin DOMAIN rels[k]})

\* enhanceSlideWithAnalysis throws instead of returning.
enhanceThrows(slideData, analysisResult) ==
    \/ MapThrows(slideData, analysisResult)
    \/ FirstBadRelationship(analysisResult.textRelationships) # 0

\* slideData.textElements.find(el => el.id === elementId)
FindElement(textElements, elementId) ==
    FirstOf({i \in 1..Len(textElements) : textElements[i].id = elementId})

\* `${relationship.group}_combined`
GroupCombinedId(group) == group \o <<"_", "c", "o", "m", "b", "i", "n", "e", "d">>

\* The segment the last forEach of enhanceSlideWithAnalysis pushes for a
\* relationship of more than one element.
CombinedSegment(slideData, relationship) ==
    LET texts == [k \in 1..Len(relationship.elements) |->
                    LET at == FindElement(slideData.textElements,
                                          relationship.elements[k])
                    IN  IF at = 0 THEN <<>> ELSE slideData.textElements[at].text]
        members == SelectSeq(slideData.textElements,
                       LAMBDA el : el.id \in Range(relationship.elements))
    IN  VisualSegment(GroupCombinedId(relationship.group), slideData.slideId,
                      relationship.group, <<"c", "o", "m", "b", "i", "n", "e", "d">>,
                      calculateCombinedBoundingBox(members),
                      Join(texts, <<" ">>),
                      IF relationship.type = "" THEN "other" ELSE relationship.type,
                      "high")

\* slideData as enhanceSlideWithAnalysis leaves it: the object is changed in
\* place, so this is the value returned and, when the function throws, the
\* value the caller still holds.
enhanceSlideWithAnalysis(slideData, analysisResult) ==
    LET areas == analysisResult.visual_areas
        recs == analysisResult.segmentationRecommendations
        enhancedVisualContexts ==
            IF Len(areas) > 0
            THEN [i \in 1..Len(areas) |->
                    VisualContext(areas[i].id,
                                  mapContentTypeToVisualContext(areas[i].type),
                                  areas[i].coordinates, areas[i].grouped_with,
                                  areas[i].topic, areas[i].context_description)]
            ELSE analysisResult.visualContexts
        enhance(segment) ==
            LET area == FindArea(areas, segment)
                rec == FindRecommendation(recs, segment)
            IN  IF area # 0
                THEN [segment EXCEPT
                        !.visualContext = mapContentTypeToVisualContext(areas[area].type),
                        !.confidence = mapConfidenceScore(areas[area].confidence)]
                ELSE IF rec # 0
                THEN [segment EXCEPT
                        !.visualContext = recs[rec].visualContext,
                        !.confidence = recs[rec].confidence]
                ELSE segment
        rels == analysisResult.textRelationships
        bad == FirstBadRelationship(rels)
        visited == IF bad = 0 THEN rels ELSE SubSeq(rels, 1, bad - 1)
        grouped == SelectSeq(visited, LAMBDA rel : Len(rel.elements) > 1)
    IN  [slideData EXCEPT
            !.visualContexts = enhancedVisualContexts,
            !.segments =
                IF MapThrows(slideData, analysisResult) THEN @
                ELSE [i \in 1..Len(slideData.segments) |-> enhance(slideData.segments[i])]
                     \o [k \in 1..Len(grouped) |-> CombinedSegment(slideData, grouped[k])]]

\* `vc_${index + 1}`
FallbackContextId(index) == <<"v", "c", "_">> \o Dec(index)

\* `group_${groupIndex + 1}`
FallbackGroupId(groupIndex) == <<"g", "r", "o", "u", "p", "_">> \o Dec(groupIndex)

createFallbackAnalysis(slideData) ==
    LET textElements == slideData.textElements
        groupedElements == groupSimilarElements(textElements)
        large == SelectSeq([g \in 1..Len(groupedElements) |-> g],
                           LAMBDA g : Len(groupedElements[g]) > 1)
        idsOf(group) == [k \in 1..Len(group) |-> group[k].id]
    IN  enhanceSlideWithAnalysis(slideData,
            Analysis(
                <<>>,
                [i \in 1..Len(textElements) |->
                    VisualContext(FallbackContextId(i),
                                  inferVisualContextType(textElements[i]),
                                  textElements[i].boundingBox,
                                  <<textElements[i].id>>, <<>>, <<>>)],
                [k \in 1..Len(large) |->
                    [group |-> FallbackGroupId(large[k]),
                     elements |-> idsOf(groupedElements[large[k]]),
                     type |-> ""]],
                [i \in 1..Len(textElements) |->
                    [segmentId |-> textElements[i].id,
                     visualContext |-> inferVisualContextType(textElements[i]),
                     confidence |-> "medium"]]
                \o [k \in 1..Len(large) |->
                    [segmentId |-> FallbackGroupId(large[k]),
                     visualContext |-> "other",
                     confidence |-> "high"]]))

\* What the call of the reasoning service does for one slide: it throws, or
\* returns no content, content that is not JSON, or an analysis.
NoAnalysis == Analysis(<<>>, <<>>, <<>>, <<>>)

Area(id, type, coordinates, confidence, topic, context_description) ==
    [id |-> id, type |-> type, coordinates |-> coordinates, grouped_with |-> <<>>,
     confidence |-> confidence, topic |-> topic,
     context_description |-> context_description]

\* The area of the prompt's output format, and an area over the second line
\* of a parsed slide.
AnalysisPool ==
    { Analysis(<<Area(<<"a", "r", "e", "a", "_", "1">>, "title_section", Box(100, 50,
        600, 80), 9,
                      <<"p", "r", "e", "s", "e", "n", "t", "a", "t", "i", "o", "n", " ",
                          "t", "i", "t", "l", "e">>, <<"M", "a", "i", "n", " ", "t", "i",
                          "t", "l", "e", " ", "o", "f", " ", "t", "h", "e", " ", "p",
                          "r", "e", "s", "e", "n", "t", "a", "t", "i", "o", "n">>)>>,
               <<>>, <<>>, <<>>),
      Analysis(<<Area(<<"a", "r", "e", "a", "_", "1">>, "title", Box(100, 130, 600, 40),
          6,
                      <<"m", "a", "r", "k", "e", "t", "i", "n", "g", " ", "m", "e", "s",
                          "s", "a", "g", "e">>, <<>>)>>,
               <<>>, <<>>, <<>>),
      \* the old format with a recommendation that has no segmentId
      Analysis(<<>>,
               <<VisualContext(<<"v", "c", "_", "1">>, "title_group", B1,
                               <<>>, <<>>, <<>>)>>,
               <<>>,
               <<[visualContext |-> "title_group", confidence |-> "high"]>>),
      \* the old format with a relationship of two fragments and one that has
      \* no elements
      Analysis(<<>>, <<>>,
               <<[group |-> <<"g", "1">>,
                  elements |-> <<TextElementId(1, 1), TextElementId(1, 2)>>,
                  type |-> "list"],
                 [group |-> <<"g", "2">>, type |-> "list"]>>,
               <<>>) }

ServiceOutcomes ==
    {[kind |-> k, analysis |-> NoAnalysis] : k \in {"throws", "empty", "unparseable"}}
        \cup {[kind |-> "analysis", analysis |-> a] : a \in AnalysisPool}

\* analyzeSlide with a throwing call answered by a slide without its slideId.
analyzeSlideLosesId(slideData, outcome) ==
    CASE outcome.kind = "throws" -> [slideData EXCEPT !.slideId = 0]
      [] outcome.kind \in {"empty", "unparseable"} -> createFallbackAnalysis(slideData)
      [] outcome.kind = "analysis" ->
            enhanceSlideWithAnalysis(slideData, outcome.analysis)

analyzeSlide(slideData, outcome) ==
    CASE outcome.kind = "throws" -> slideData
      [] outcome.kind \in {"empty", "unparseable"} -> createFallbackAnalysis(slideData)
      [] outcome.kind = "analysis" ->
            enhanceSlideWithAnalysis(slideData, outcome.analysis)

\* generateTranslations of index.js
generateTranslations(segs) ==
    [i \in 1..Len(segs) |->
        [id |-> segs[i].id, slideId |-> segs[i].slideId,
         textElementId |-> segs[i].textElementId,
         visualContextId |-> segs[i].visualContextId,
         coordinates |-> segs[i].coordinates, text |-> segs[i].text,
         visualContext |-> segs[i].visualContext, confidence |-> segs[i].confidence,
         translation |-> <<"[", "T", "r", "a", "n", "s", "l", "a", "t", "i", "o", "n",
             " ", "f", "o", "r", ":", " ">> \o segs[i].text \o <<"]">>]]

\* allSegments.push(...slide.segments) over the analysed slides
RECURSIVE CollectSegments(_)
CollectSegments(slideList) ==
    IF Len(slideList) = 0 THEN <<>>
    ELSE slideList[1].segments \o CollectSegments(Tail(slideList))

(* Requests *)

MaxSlides == 2      \* slides of an uploaded presentation

\* The text lines the parser extracts from one slide.
SlideTexts ==
    { <<>>,
      <<<<"A", "b">>>>,
      <<<<"A", "b">>, <<" ", "C", "d", " ">>>>,
      <<<<"A", "b">>, <<" ", " ">>, <<"C", "d">>>>,
      <<<<"A", "b">>, <<"c", ".", " ", "-", " ", "d">>>> }

Request(hasFile, hasApiKey, extension, textContent) ==
    [hasFile |-> hasFile, hasApiKey |-> hasApiKey, extension |-> extension,
     textContent |-> textContent]

Requests ==
    {Request(TRUE, TRUE, <<".", "p", "p", "t", "x">>, d) : d \in SeqsUpTo(SlideTexts,
        MaxSlides)}
        \cup { Request(TRUE, TRUE, <<".", "P", "P", "T", "X">>, <<<<<<"A", "b">>>>>>),
               Request(FALSE, TRUE, <<>>, <<>>),
               Request(TRUE, FALSE, <<".", "p", "p", "t", "x">>, <<>>),
               Request(TRUE, TRUE, <<".", "p", "d", "f">>, <<>>) }

NoResponse == [status |-> 0, slides |-> <<>>, segments |-> <<>>]

\* A nullable value: None for null, Some(v) for the value v.
None == <<>>

Some(v) == <<v>>

\* The App as it is mounted: the initial values of its useState calls, no
\* request in flight, no file analysed yet.
AppMounted ==
    /\ app = [currentStep |-> "upload", isProcessing |-> FALSE, analysis |-> None,
              optimizedSegments |-> None, fileName |-> "", error |-> None,
              analysedFile |-> ""]
    /\ fetches = {}

\* No execution of processPowerPoint and an empty temp directory.
NoTempFiles ==
    /\ now = 0
    /\ tempFiles = {}
    /\ procs = <<>>

\* No document in the glossary flow, nothing called yet.
NoDocument ==
    /\ stage = "idle"
    /\ docContext = <<>>
    /\ terms = <<>>
    /\ trace = <<>>

NoRequest ==
    /\ pc = "none"
    /\ request = Request(FALSE, FALSE, <<>>, <<>>)
    /\ pptData = <<>>
    /\ analyzedSlides = <<>>
    /\ response = NoResponse

----------------------------------------------------------------------------
(* The engine instance *)

IdsOf(segs) == [i \in 1..Len(segs) |-> segs[i].id]

MergedOnly(segs) == SelectSeq(segs, LAMBDA s : s.isMerged)

\* new SegmentationEngine()
InitEngine ==
    /\ segmentIdCounter = 1
    /\ calls = 0
    /\ allSegments = <<>>
    /\ segments = <<>>
    /\ createdIds = <<>>

NoCall ==
    /\ fn = "none"
    /\ input = <<>>
    /\ result = <<>>

\* engine.generateSegmentation(slideList)
GenerateSegmentation(slideList) ==
    /\ calls < MaxCalls
    /\ \E perms \in PermChoices(slideList) :
        \E r \in {generateSegmentation(slideList, segmentIdCounter, perms)} :
            /\ slides' = slideList
            /\ allSegments' = r.all
            /\ segments' = r.list
            /\ segmentIdCounter' = r.counter
            /\ createdIds' = createdIds \o IdsOf(r.all) \o IdsOf(MergedOnly(r.list))
    /\ calls' = calls + 1
    /\ UNCHANGED callVars
    /\ UNCHANGED handlerVars

\* One engine instance called again and again.
Init ==
    /\ InitEngine
    /\ slides = <<>>
    /\ NoCall
    /\ NoRequest
    /\ NoTempFiles
    /\ NoDocument
    /\ AppMounted

Next == \E slideList \in CallInputs : GenerateSegmentation(slideList)

Spec == Init /\ [][Next]_vars

\* A fresh engine instance called once with any input.
InitRun ==
    /\ InitEngine
    /\ slides \in RunInputs
    /\ NoCall
    /\ NoRequest
    /\ NoTempFiles
    /\ NoDocument
    /\ AppMounted

NextRun == calls = 0 /\ GenerateSegmentation(slides)

SpecRun == InitRun /\ [][NextRun]_vars

----------------------------------------------------------------------------
(* Direct calls of the engine's methods on a fresh instance *)

MaxSegs == 3        \* segments in a list given to the optimizer's steps
MaxBoxes == 3       \* boxes in a list given to calculateCombinedBoundingBox
MaxCoord == 2       \* extent of the grid the box pairs are drawn from
MaxRegions == 2     \* regions in a list given to findBestVisualContext

Seg(id, slideId, text, box, category) ==
    [id |-> id, slideId |-> slideId, textElementId |-> id,
     visualContextId |-> Individual, coordinates |-> box, text |-> text,
     visualContext |-> category, confidence |-> "medium", isCombined |-> FALSE,
     elementCount |-> 0, isMerged |-> FALSE, originalSegments |-> <<>>]

G1 == Seg(<<"g", "1">>, 1, <<"a">>, Box(0, 0, 10, 10), "body_text")
\* the key of G1, another width, height, category and id
G2 == Seg(<<"g", "2">>, 1, <<"a">>, Box(0, 0, 20, 30), "title_group")
\* centre 30 from G1's
G3 == Seg(<<"g", "3">>, 1, <<"b">>, Box(30, 0, 10, 10), "body_text")
\* centre 30 from G3's and 60 from G1's
G4 == Seg(<<"g", "4">>, 1, <<"a">>, Box(60, 0, 10, 10), "body_text")
\* G1 on another slide
G5 == Seg(<<"g", "5">>, 2, <<"a">>, Box(0, 0, 10, 10), "body_text")
\* a text with the separator of the key in it
G6 == Seg(<<"g", "6">>, 1, <<"a", "_", "0">>, Box(0, 0, 10, 10), "body_text")
\* centre exactly 50 from G1's
G7 == Seg(<<"g", "7">>, 1, <<"b">>, Box(50, 0, 10, 10), "body_text")

SegPool == {G1, G2, G3, G4, G5, G6, G7}

SegLists == SeqsUpTo(SegPool, MaxSegs)

BoxPool == {B0, B1, B2, B4, Box(650, 10, 100, 30), Box(300, 60, 10, 10)}

BoxLists == SeqsUpTo(BoxPool, MaxBoxes)

GridBoxes ==
    {Box(x, y, w, h) : x \in 0..MaxCoord, y \in 0..MaxCoord,
                       w \in 0..MaxCoord, h \in 0..MaxCoord}

BoxPairs == {<<a, b>> : a \in GridBoxes, b \in GridBoxes}

A1 == Element(<<"a", "1">>, <<"a", "b", "c", " ", "x">>, Box(10, 10, 20, 10), 12, FALSE)
A2 == Element(<<"a", "2">>, <<"z", "z", "z">>, Box(10, 10, 20, 10), 12, FALSE)
A3 == Element(<<"a", "3">>, <<"a", "b", "c">>, Box(15, 15, 0, 0), 12, FALSE)
A4 == Element(<<"a", "4">>, <<>>, Box(100, 100, 20, 10), 12, FALSE)
A5 == Element(<<"a", "5">>, <<"A", "b", "c", "-", "d", "e", "f">>,
              Box(100, 100, 20, 10), 12, FALSE)
A6 == Element(<<"a", "6">>, <<"z", "z", "z">>, Box(100, 100, 20, 10), 12, FALSE)

AssignElements_Pool == {A1, A2, A3, A4, A5, A6}

Q1 == Region(<<"q", "1">>, "body_text", Box(0, 0, 40, 40), <<>>, <<>>)
Q2 == Region(<<"q", "2">>, "title_group", Box(0, 0, 40, 40), <<"A", "b", "c">>, <<>>)
Q3 == Region(<<"q", "3">>, "caption", Box(20, 10, 20, 10), <<>>, <<>>)
Q4 == Region(<<"q", "4">>, "callout", Box(200, 200, 10, 10),
             <<"a", "b", "c", " ", "d", "e", "f">>,
             <<"a", "b", "c", "_", "x", "y", "-", "d", "e", "f">>)
Q5 == Region(<<"q", "5">>, "other", Box(15, 15, 0, 0), <<"a", "b", "c">>, <<>>)
Q6 == Region(<<"q", "6">>, "navigation", Box(200, 200, 10, 10), <<"x", "y">>, <<>>)

RegionPool == {Q1, Q2, Q3, Q4, Q5, Q6}

AssignInputs ==
    {[element |-> e, visualContexts |-> rs] :
        e \in AssignElements_Pool, rs \in SeqsUpTo(RegionPool, MaxRegions)}

InitCall(inputs) ==
    /\ InitEngine
    /\ slides = <<>>
    /\ fn = "none"
    /\ input \in inputs
    /\ result = <<>>
    /\ NoRequest
    /\ NoTempFiles
    /\ NoDocument
    /\ AppMounted

Return(name, value, counter) ==
    /\ fn = "none"
    /\ fn' = name
    /\ result' = value
    /\ segmentIdCounter' = counter
    /\ UNCHANGED <<calls, slides, allSegments, segments, createdIds, input>>
    /\ UNCHANGED handlerVars

\* engine.removeDuplicates(input)
CallRemoveDuplicates ==
    Return("removeDuplicates", removeDuplicates(input), segmentIdCounter)

\* engine.mergeSimilarSegments(input)
CallMergeSimilarSegments ==
    LET m == mergeSimilarSegments(input, segmentIdCounter)
    IN  Return("mergeSimilarSegments", m.list, m.counter)

InitSegs == InitCall(SegLists)

NextSegs == CallRemoveDuplicates \/ CallMergeSimilarSegments

SpecSegs == InitSegs /\ [][NextSegs]_vars

\* The fragments and the segments a list of boxes stands for.
BoxElements(boxes) ==
    [i \in 1..Len(boxes) |-> Element(<<"b">> \o Dec(i), <<"w">> \o Dec(i), boxes[i], 12, FALSE)]

BoxSegments(boxes) ==
    [i \in 1..Len(boxes) |-> Seg(<<"b">> \o Dec(i), 1, <<"w">> \o Dec(i), boxes[i], "body_text")]

\* engine.calculateCombinedBoundingBox(elements)
CallCalculateCombinedBoundingBox ==
    Return("calculateCombinedBoundingBox",
           calculateCombinedBoundingBox(BoxElements(input)), segmentIdCounter)

\* engine.mergeSegments(segments), which mergeSimilarSegments calls with two or more
CallMergeSegments ==
    /\ Len(input) > 1
    /\ Return("mergeSegments", mergeSegments(BoxSegments(input), segmentIdCounter),
              segmentIdCounter + 1)

\* engine.createContextSegments(group, 1, 'r4') for a group holding the elements
CallCreateContextSegments ==
    LET c == createContextSegments(
                 [context |-> R4, elements |-> BoxElements(input),
                  boundingBox |-> R4.boundingBox, topic |-> R4.topic,
                  semanticContext |-> R4.semanticContext],
                 1, R4.id, segmentIdCounter)
    IN  Return("createContextSegments", c.list, c.counter)

InitBoxes == InitCall(BoxLists)

NextBoxes ==
    \/ CallCalculateCombinedBoundingBox
    \/ CallMergeSegments
    \/ CallCreateContextSegments

SpecBoxes == InitBoxes /\ [][NextBoxes]_vars

\* engine.calculateOverlap(box1, box2)
CallCalculateOverlap ==
    Return("calculateOverlap", calculateOverlap(input[1], input[2]), segmentIdCounter)

InitPair == InitCall(BoxPairs)

NextPair == CallCalculateOverlap

SpecPair == InitPair /\ [][NextPair]_vars

\* engine.findBestVisualContext(element, visualContexts)
CallFindBestVisualContext ==
    Return("findBestVisualContext",
           findBestVisualContext(input.element, input.visualContexts), segmentIdCounter)

InitAssign == InitCall(AssignInputs)

NextAssign == CallFindBestVisualContext

SpecAssign == InitAssign /\ [][NextAssign]_vars

\* The slide of the scenario: 'Overview' and 'Details' inside one region with
\* the topic "intro".
Overview == <<"O", "v", "e", "r", "v", "i", "e", "w">>

Details == <<"D", "e", "t", "a", "i", "l", "s">>

ScenarioSlide ==
    Slide(1, <<Element(<<"t", "1">>, Overview, B1, 12, FALSE),
               Element(<<"t", "2">>, Details, B2, 12, FALSE)>>,
          <<Region(<<"r", "1">>, "body_text", Box(0, 0, 800, 600),
                   <<"i", "n", "t", "r", "o">>, <<>>)>>)

SlideInputs == SingleSlides \cup {ScenarioSlide}

\* engine.processSlideSegmentation(slide) on a fresh engine
CallProcessSlideSegmentation ==
    \E perm \in SlidePerms(input) :
        \E r \in {processSlideSegmentation(input, segmentIdCounter, perm)} :
            Return("processSlideSegmentation", r.list, r.counter)

InitSlide == InitCall(SlideInputs)

NextSlide == CallProcessSlideSegmentation

SpecSlide == InitSlide /\ [][NextSlide]_vars

\* Regions of one topic: P2 lies 250 from P1 and 100 from P3, P4 far from all.
MaxGroups == 3      \* regions of one topic given to mergeSemanticGroups

Topic == <<"a", "b", "c">>

P1 == Region(<<"p", "1">>, "body_text", Box(0, 0, 100, 100), Topic, <<>>)
P2 == Region(<<"p", "2">>, "body_text", Box(200, 0, 200, 100), Topic, <<>>)
P3 == Region(<<"p", "3">>, "body_text", Box(300, 0, 200, 100), Topic, <<>>)
P4 == Region(<<"p", "4">>, "body_text", Box(0, 1000, 100, 100), Topic, <<>>)

\* Fragments at the left edge of P2, inside P2 and P3, inside P1, and outside
\* every region.
E1 == Element(<<"e", "1">>, <<"d", "d">>, Box(200, 0, 20, 100), 12, FALSE)
E2 == Element(<<"e", "2">>, <<"e", "e">>, Box(320, 0, 20, 100), 12, FALSE)
E3 == Element(<<"e", "3">>, <<"f", "f">>, Box(10, 10, 20, 20), 12, FALSE)
E4 == Element(<<"e", "4">>, <<"g", "g">>, Box(600, 600, 20, 20), 12, FALSE)

TopicRegionLists ==
    {rs \in SeqsUpTo({P1, P2, P3, P4}, MaxGroups) :
        /\ Len(rs) > 1
        /\ \A i, j \in 1..Len(rs) : i # j => rs[i] # rs[j]}

GroupInputs ==
    {Slide(1, els, rs) : els \in SeqsUpTo({E1, E2, E3, E4}, MaxElems),
                         rs \in TopicRegionLists}

\* engine.mergeSemanticGroups(groups, topic) on the groups of a slide whose
\* regions share one topic, as applySemanticGrouping calls it; the value is
\* the `groups` array as the call leaves it.
CallMergeSemanticGroups ==
    \E perm \in Perms(Len(input.visualContexts)) :
        \E empty \in {InitGroups(input.visualContexts, 1, <<>>)} :
            \E contextGroups \in {AssignElements(input.textElements,
                                                 input.visualContexts, 1, empty)} :
                \E r \in {mergeSemanticGroups(contextGroups,
                                               GroupsOfTopic(contextGroups, Topic),
                                               Topic, perm)} :
                    Return("mergeSemanticGroups",
                           [k \in 1..Len(r.groups) |-> r.map[r.groups[k]].value],
                           segmentIdCounter)

InitGroupsCall == InitCall(GroupInputs)

NextGroups == CallMergeSemanticGroups

SpecGroups == InitGroupsCall /\ [][NextGroups]_vars

\* A text of n characters c.
Repeat(c, n) == [i \in 1..n |-> c]

\* The texts the classifiers are called with: the two texts of the
\* specification's scenario, texts with each bullet marker, captions in
\* several letter cases, and texts at the two length limits.
Q3Results == <<"Q", "3", " ", "R", "e", "s", "u", "l", "t", "s">>

RevenueGrew == <<Bullet>> \o <<" ", "R", "e", "v", "e", "n", "u", "e", " ", "g", "r", "e", "w", " ", "1", "2", "%">>

WellKnown == <<"a", " ", "w", "e", "l", "l", "-", "k", "n", "o", "w", "n", " ", "r", "e", "s", "u", "l", "t", ".">>

ClassifyTexts ==
    {Q3Results, RevenueGrew, WellKnown,
     <<Bullet>> \o <<" ", "s", "e", "e", " ", "F", "i", "g", "u", "r", "e", " ", "2", ".">>,
     <<"-", " ", "i", "t", "e", "m">>, <<"a", "*", "b">>,
     <<"S", "e", "e", " ", "F", "i", "g", "u", "r", "e", " ", "2">>, <<"T", "A", "B", "L", "E", " ", "1">>, <<"T", "a", "b", "l", "e", " ", "1", ".", " ", "S", "a", "l", "e", "s">>,
     <<"p", "l", "a", "i", "n", " ", "t", "e", "x", "t">>, <<"P", "l", "a", "i", "n", " ", "t", "e", "x", "t", ".">>,
     Repeat("x", TitleMaxLength - 1), Repeat("x", TitleMaxLength),
     <<"f", "i", "g", "u", "r", "e", ".">> \o Repeat("x", CaptionMaxLength - 8),
     <<"f", "i", "g", "u", "r", "e", ".">> \o Repeat("x", CaptionMaxLength - 7)}

ClassifyFontSizes == {0, DefaultFontSize, TitleFontSize - 1, TitleFontSize, 24}

ClassifyInputs ==
    {Element(<<"t", "1">>, text, B1, fontSize, isBold) :
        text \in ClassifyTexts, fontSize \in ClassifyFontSizes, isBold \in BOOLEAN}

\* engine.inferVisualContext(element)
CallInferVisualContext ==
    Return("inferVisualContext", inferVisualContext(input), segmentIdCounter)

\* analyzer.inferVisualContextType(element)
CallInferVisualContextType ==
    Return("inferVisualContextType", inferVisualContextType(input), segmentIdCounter)

InitClassify == InitCall(ClassifyInputs)

NextClassify ==
    \/ CallInferVisualContext
    \/ CallInferVisualContextType

SpecClassify == InitClassify /\ [][NextClassify]_vars

\* The slides analyzeSlide is called with: the slides processPowerPoint
\* returns for the parsed presentations and for the mock presentation.
AnalyzeSlideData ==
    UNION {Range(ProcessedSlides(parsePresentation(d))) : d \in SeqsUpTo(SlideTexts, MaxSlides)}
        \cup Range(ProcessedSlides(createMockPresentation))

AnalyzeInputs ==
    {[slideData |-> s, outcome |-> o] : s \in AnalyzeSlideData, o \in ServiceOutcomes}

\* analyzer.analyzeSlide(slideData), the reasoning service doing one of
\* ServiceOutcomes
CallAnalyzeSlide ==
    Return("analyzeSlide", analyzeSlide(input.slideData, input.outcome), segmentIdCounter)

InitAnalyze == InitCall(AnalyzeInputs)

NextAnalyze == CallAnalyzeSlide

SpecAnalyze == InitAnalyze /\ [][NextAnalyze]_vars

(* The handler of POST /api/analyze-powerpoint, step by step *)

\* The early returns of the handler: 400, 500, 400.
RejectRequest ==
    /\ pc = "received"
    /\ \/ ~request.hasFile /\ response' = [NoResponse EXCEPT !.status = 400]
       \/ request.hasFile /\ ~request.hasApiKey
            /\ response' = [NoResponse EXCEPT !.status = 500]
       \/ request.hasFile /\ request.hasApiKey
            /\ toLowerCase(request.extension) # <<".", "p", "p", "t", "x">>
            /\ response' = [NoResponse EXCEPT !.status = 400]
    /\ pc' = "responded"
    /\ UNCHANGED <<request, pptData, analyzedSlides>>
    /\ UNCHANGED tempVars
    /\ UNCHANGED glossaryVars
    /\ UNCHANGED trace
    /\ UNCHANGED engineVars
    /\ UNCHANGED appVars
    /\ UNCHANGED callVars

\* Step 1: processPowerPoint.  The parser reads the file or throws, and then
\* parsePresentation falls back to the mock presentation; processPowerPoint
\* itself may throw (writing the file, a slide, deleting the file), which the
\* handler reports with status 500.  With the slides at hand the handler
\* calls analyzeSlides.
ProcessPowerPoint ==
    /\ pc = "received"
    /\ request.hasFile /\ request.hasApiKey
    /\ toLowerCase(request.extension) = <<".", "p", "p", "t", "x">>
    /\ \/ /\ pptData' = ProcessedSlides(parsePresentation(request.textContent))
          /\ pc' = "analyzing"
          /\ trace' = trace \o <<"processPowerPoint", "analyzeSlides">>
          /\ UNCHANGED response
       \/ /\ pptData' = ProcessedSlides(createMockPresentation)
          /\ pc' = "analyzing"
          /\ trace' = trace \o <<"processPowerPoint", "parser throws", "analyzeSlides">>
          /\ UNCHANGED response
       \/ /\ response' = [NoResponse EXCEPT !.status = 500]
          /\ pc' = "responded"
          /\ trace' = trace \o <<"processPowerPoint", "processPowerPoint throws">>
          /\ UNCHANGED pptData
    /\ UNCHANGED <<request, analyzedSlides>>
    /\ UNCHANGED tempVars
    /\ UNCHANGED glossaryVars
    /\ UNCHANGED engineVars
    /\ UNCHANGED appVars
    /\ UNCHANGED callVars

\* Step 2, one turn of the loop of analyzeSlides.
AnalyzeSlide ==
    /\ pc = "analyzing"
    /\ Len(analyzedSlides) < Len(pptData)
    /\ \E outcome \in ServiceOutcomes :
          analyzedSlides' =
              Append(analyzedSlides,
                     analyzeSlide(pptData[Len(analyzedSlides) + 1], outcome))
    /\ UNCHANGED <<pc, request, pptData, response>>
    /\ UNCHANGED tempVars
    /\ UNCHANGED glossaryVars
    /\ UNCHANGED trace
    /\ UNCHANGED engineVars
    /\ UNCHANGED appVars
    /\ UNCHANGED callVars

\* Steps 3 and 4 and res.json.
Respond ==
    /\ pc = "analyzing"
    /\ Len(analyzedSlides) = Len(pptData)
    /\ response' = [status |-> 200, slides |-> analyzedSlides,
                    segments |-> generateTranslations(CollectSegments(analyzedSlides))]
    /\ pc' = "responded"
    /\ UNCHANGED <<request, pptData, analyzedSlides>>
    /\ UNCHANGED tempVars
    /\ UNCHANGED glossaryVars
    /\ UNCHANGED trace
    /\ UNCHANGED engineVars
    /\ UNCHANGED appVars
    /\ UNCHANGED callVars

InitFlow ==
    /\ InitEngine
    /\ slides = <<>>
    /\ NoCall
    /\ pc = "received"
    /\ request \in Requests
    /\ pptData = <<>>
    /\ analyzedSlides = <<>>
    /\ response = NoResponse
    /\ NoTempFiles
    /\ NoDocument
    /\ AppMounted

NextFlow == RejectRequest \/ ProcessPowerPoint \/ AnalyzeSlide \/ Respond

SpecFlow == InitFlow /\ [][NextFlow]_vars

----------------------------------------------------------------------------
(* processPowerPoint and the temp directory, for requests served at once *)

MaxRequests == 2    \* requests whose processPowerPoint executions may overlap
MaxClock == 2       \* milliseconds the clock advances

\* `temp_${Date.now()}.pptx`
TempFilePath(t) == <<"t", "e", "m", "p", "_">> \o Dec(t) \o <<".", "p", "p", "t", "x">>

\* fs.writeFileSync(path, buffer): the file at path holds the buffer, whatever
\* it held before.  The buffer of request c is written c.
writeFileSync(files, path, buffer) ==
    {f \in files : f.path # path} \cup {[path |-> path, content |-> buffer]}

\* fs.unlinkSync(path)
unlinkSync(files, path) == {f \in files : f.path # path}

existsSync(files, path) == \E f \in files : f.path = path

\* What a parser that opens path is given: the content of the file, or
\* Missing when there is none (the parser throws and parsePresentation falls
\* back to the mock presentation).
Missing == 0 - 1

NotRead == 0

ReadFile(files, path) ==
    IF existsSync(files, path) THEN (CHOOSE f \in files : f.path = path).content
    ELSE Missing

Proc(at, tempFilePath, wrote, read) ==
    [pc |-> at, tempFilePath |-> tempFilePath, wrote |-> wrote, read |-> read]

\* Date.now() advances between two turns of the event loop, or does not.
Tick ==
    /\ now < MaxClock
    /\ now' = now + 1
    /\ UNCHANGED <<tempFiles, procs>>
    /\ UNCHANGED <<appVars, engineVars, callVars, flowVars, glossaryVars, trace>>

\* processPowerPoint up to its first await: the path is taken from the clock
\* and the buffer is written, or writeFileSync throws and the catch rethrows.
WriteTempFile(c) ==
    /\ procs[c].pc = "idle"
    /\ \E path \in {TempFilePath(now)} :
          \/ /\ tempFiles' = writeFileSync(tempFiles, path, c)
             /\ procs' = [procs EXCEPT ![c] = Proc("written", path, TRUE, NotRead)]
          \/ /\ procs' = [procs EXCEPT ![c] = Proc("thrown", path, FALSE, NotRead)]
             /\ UNCHANGED tempFiles
    /\ UNCHANGED now
    /\ UNCHANGED <<appVars, engineVars, callVars, flowVars, glossaryVars, trace>>

\* await this.parsePresentation(tempFilePath): the parser opens the file that
\* is at the path now; parsePresentation never throws.
ParsePresentation(c) ==
    /\ procs[c].pc = "written"
    /\ procs' = [procs EXCEPT ![c].pc = "parsed",
                              ![c].read = ReadFile(tempFiles, procs[c].tempFilePath)]
    /\ UNCHANGED <<now, tempFiles>>
    /\ UNCHANGED <<appVars, engineVars, callVars, flowVars, glossaryVars, trace>>

\* The loop over the slides, fs.unlinkSync and the return: a processSlide
\* that throws, or an unlinkSync that finds no file, ends in the catch, which
\* rethrows and deletes nothing.
FinishProcessing(c) ==
    /\ procs[c].pc = "parsed"
    /\ \/ /\ procs' = [procs EXCEPT ![c].pc = "thrown"]
          /\ UNCHANGED tempFiles
       \/ /\ existsSync(tempFiles, procs[c].tempFilePath)
          /\ tempFiles' = unlinkSync(tempFiles, procs[c].tempFilePath)
          /\ procs' = [procs EXCEPT ![c].pc = "returned"]
       \/ /\ ~existsSync(tempFiles, procs[c].tempFilePath)
          /\ procs' = [procs EXCEPT ![c].pc = "thrown"]
          /\ UNCHANGED tempFiles
    /\ UNCHANGED now
    /\ UNCHANGED <<appVars, engineVars, callVars, flowVars, glossaryVars, trace>>

InitTemp ==
    /\ InitEngine
    /\ slides = <<>>
    /\ NoCall
    /\ NoRequest
    /\ NoDocument
    /\ AppMounted
    /\ now = 0
    /\ tempFiles = {}
    /\ procs = [c \in 1..MaxRequests |-> Proc("idle", <<>>, FALSE, NotRead)]

NextTemp ==
    \/ Tick
    \/ \E c \in 1..MaxRequests : WriteTempFile(c)
    \/ \E c \in 1..MaxRequests : ParsePresentation(c)
    \/ \E c \in 1..MaxRequests : FinishProcessing(c)

SpecTemp == InitTemp /\ [][NextTemp]_vars

----------------------------------------------------------------------------
(* The handler of POST /api/analyze and the glossary flow it awaits *)

\* The extensions the upload filter lets through.
AllowedExtensions ==
    {<<".", "t", "x", "t">>, <<".", "h", "t", "m", "l">>, <<".", "h", "t", "m">>, <<".", "p", "d", "f">>, <<".", "d", "o", "c", "x">>, <<".", "p", "p", "t", "x">>}

\* The cases of the switch on the extension.
ExtractableExtensions ==
    {<<".", "t", "x", "t">>, <<".", "p", "d", "f">>, <<".", "d", "o", "c", "x">>, <<".", "h", "t", "m", "l">>, <<".", "h", "t", "m">>}

\* text.replace(/\s+/g, ' ')
RECURSIVE collapseWhitespace(_)
collapseWhitespace(text) ==
    IF Len(text) = 0 THEN <<>>
    ELSE IF IsSpace(text[1]) THEN <<" ">> \o collapseWhitespace(trimStart(text))
    ELSE <<text[1]>> \o collapseWhitespace(Tail(text))

\* A request of POST /api/analyze: textContent is what the file holds as text,
\* parses tells whether pdfParse and mammoth read the file or throw.
DocumentRequest(hasFile, hasApiKey, extension, textContent, parses) ==
    [hasFile |-> hasFile, hasApiKey |-> hasApiKey, extension |-> extension,
     textContent |-> textContent, parses |-> parses]

\* The text the switch leaves in `text`.
ExtractText(req) ==
    IF toLowerCase(req.extension) \in {<<".", "h", "t", "m", "l">>, <<".", "h", "t", "m">>}
    THEN trim(collapseWhitespace(req.textContent))
    ELSE req.textContent

\* pdfParse or mammoth.extractRawText throws.
ExtractionThrows(req) ==
    toLowerCase(req.extension) \in {<<".", "p", "d", "f">>, <<".", "d", "o", "c", "x">>} /\ ~req.parses

DocumentTexts == {<<>>, <<" ", "\n">>, <<"A", "b", " ", " ", "c">>}

DocumentExtensions ==
    {<<".", "t", "x", "t">>, <<".", "T", "X", "T">>, <<".", "p", "d", "f">>, <<".", "d", "o", "c", "x">>, <<".", "h", "t", "m", "l">>, <<".", "h", "t", "m">>,
     <<".", "p", "p", "t", "x">>, <<>>}

DocumentRequests ==
    {DocumentRequest(hasFile, hasApiKey, extension, text, parses) :
        hasFile \in BOOLEAN, hasApiKey \in BOOLEAN, extension \in DocumentExtensions,
        text \in DocumentTexts, parses \in BOOLEAN}

NoResult == [status |-> 0, kind |-> "none", context |-> <<>>, terms |-> <<>>]

ErrorResult(status) == [NoResult EXCEPT !.status = status, !.kind = "error"]

\* The early returns of the handler and the catch around the extraction:
\* 400, 500, and 400 for an unsupported extension, a parser that throws and
\* a text that is empty or white space.
RejectDocument ==
    /\ pc = "uploaded"
    /\ \/ ~request.hasFile /\ response' = ErrorResult(400)
       \/ request.hasFile /\ ~request.hasApiKey /\ response' = ErrorResult(500)
       \/ /\ request.hasFile /\ request.hasApiKey
          /\ toLowerCase(request.extension) \notin ExtractableExtensions
          /\ response' = ErrorResult(400)
       \/ /\ request.hasFile /\ request.hasApiKey
          /\ toLowerCase(request.extension) \in ExtractableExtensions
          /\ ExtractionThrows(request)
          /\ response' = ErrorResult(400)
       \/ /\ request.hasFile /\ request.hasApiKey
          /\ toLowerCase(request.extension) \in ExtractableExtensions
          /\ ~ExtractionThrows(request)
          /\ Len(trim(ExtractText(request))) = 0
          /\ response' = ErrorResult(400)
    /\ pc' = "answered"
    /\ UNCHANGED <<request, pptData, analyzedSlides>>
    /\ UNCHANGED <<appVars, engineVars, callVars, tempVars, glossaryVars, trace>>

\* const results = await analyzeDocument(text)
CallAnalyzeDocument ==
    /\ pc = "uploaded"
    /\ request.hasFile /\ request.hasApiKey
    /\ toLowerCase(request.extension) \in ExtractableExtensions
    /\ ~ExtractionThrows(request)
    /\ Len(trim(ExtractText(request))) > 0
    /\ pc' = "awaiting"
    /\ trace' = Append(trace, "analyzeDocument")
    /\ UNCHANGED <<request, pptData, analyzedSlides, response>>
    /\ UNCHANGED <<appVars, engineVars, callVars, tempVars, glossaryVars>>

\* The glossary flow of analyzeDocument: idle, context-extracting,
\* term-extracting, done, failed.
DocumentContext(domain, potentialTerms) ==
    [domain |-> domain, potentialTerms |-> potentialTerms]

GlossaryTerm(term, category, confidence) ==
    [term |-> term, category |-> category, confidence |-> confidence]

Contexts ==
    {DocumentContext("finance", <<>>), DocumentContext("software", <<<<"A", "P", "I">>>>)}

TermLists == {<<>>, <<GlossaryTerm(<<"A", "P", "I">>, "acronym", "high")>>}

\* Stage 1 is called on the document.
StartContextExtraction ==
    /\ pc = "awaiting"
    /\ stage = "idle"
    /\ stage' = "context-extracting"
    /\ trace' = Append(trace, "infer")
    /\ UNCHANGED <<docContext, terms>>
    /\ UNCHANGED <<appVars, engineVars, callVars, flowVars, tempVars>>

\* Stage 1 returns a context, with which stage 2 is called.
InferReturns ==
    /\ stage = "context-extracting"
    /\ docContext' \in Contexts
    /\ stage' = "term-extracting"
    /\ trace' = Append(trace, "extract")
    /\ UNCHANGED terms
    /\ UNCHANGED <<appVars, engineVars, callVars, flowVars, tempVars>>

\* Stage 1 fails: a hard stop.
InferThrows ==
    /\ stage = "context-extracting"
    /\ stage' = "failed"
    /\ trace' = Append(trace, "infer throws")
    /\ UNCHANGED <<docContext, terms>>
    /\ UNCHANGED <<appVars, engineVars, callVars, flowVars, tempVars>>

\* Stage 2 returns the terms.
ExtractReturns ==
    /\ stage = "term-extracting"
    /\ terms' \in TermLists
    /\ stage' = "done"
    /\ UNCHANGED <<docContext, trace>>
    /\ UNCHANGED <<appVars, engineVars, callVars, flowVars, tempVars>>

\* Stage 2 fails.
ExtractThrows ==
    /\ stage = "term-extracting"
    /\ stage' = "failed"
    /\ trace' = Append(trace, "extract throws")
    /\ UNCHANGED <<docContext, terms>>
    /\ UNCHANGED <<appVars, engineVars, callVars, flowVars, tempVars>>

\* RespondDocument with a failed flow answered by what the flow has so far.
RespondDocumentPartial ==
    /\ pc = "awaiting"
    /\ stage \in {"done", "failed"}
    /\ response' = [status |-> 200, kind |-> "results", context |-> docContext,
                    terms |-> terms]
    /\ pc' = "answered"
    /\ UNCHANGED <<request, pptData, analyzedSlides>>
    /\ UNCHANGED <<appVars, engineVars, callVars, tempVars, glossaryVars, trace>>

\* res.json(results) when analyzeDocument resolved, the catch with status 500
\* when it rejected.
RespondDocument ==
    /\ pc = "awaiting"
    /\ \/ /\ stage = "done"
          /\ response' = [status |-> 200, kind |-> "results", context |-> docContext,
                          terms |-> terms]
       \/ /\ stage = "failed"
          /\ response' = ErrorResult(500)
    /\ pc' = "answered"
    /\ UNCHANGED <<request, pptData, analyzedSlides>>
    /\ UNCHANGED <<appVars, engineVars, callVars, tempVars, glossaryVars, trace>>

InitDocument ==
    /\ InitEngine
    /\ slides = <<>>
    /\ NoCall
    /\ pc = "uploaded"
    /\ request \in DocumentRequests
    /\ pptData = <<>>
    /\ analyzedSlides = <<>>
    /\ response = NoResult
    /\ NoTempFiles
    /\ NoDocument
    /\ AppMounted

NextDocument ==
    \/ RejectDocument
    \/ CallAnalyzeDocument
    \/ StartContextExtraction
    \/ InferReturns
    \/ InferThrows
    \/ ExtractReturns
    \/ ExtractThrows
    \/ RespondDocument

SpecDocument == InitDocument /\ [][NextDocument]_vars

\* The server with both routes: a request of either handler.
InitServer == InitFlow \/ InitDocument

NextServer == NextFlow \/ NextDocument

SpecServer == InitServer /\ [][NextServer]_vars

-----------------------------------------------------------------------------
(* The App component: its handlers and the completions of its requests *)

MaxFetches == 2         \* requests of the App in flight at once
MaxAppSegments == 2     \* segments in the answer to an upload

FileNames == {"deck.pptx", "other.pptx"}

\* data.segments of an answer: the segments, by number.
AnsweredSegments == {[i \in 1..n |-> i] : n \in 0..MaxAppSegments}

Fetch(id, kind, file) == [id |-> id, kind |-> kind, file |-> file]

FreeFetchIds == (1..MaxFetches) \ {f.id : f \in fetches}

NewFetch(kind, file) ==
    Fetch(CHOOSE i \in FreeFetchIds : \A j \in FreeFetchIds : i <= j, kind, file)

\* The lists the SegmentationEditor hands to onSegmentsChange: an edited
\* segment (the same numbers), a deleted one, or two merged into a new one
\* (number 0) at the end.
EditorUpdates(list) ==
    LET without(D) == SelectSeq(list, LAMBDA x : x \notin D)
    IN  {list}
        \cup {without({list[i]}) : i \in 1..Len(list)}
        \cup {Append(without({list[i], list[j]}), 0) :
                 <<i, j>> \in {q \in (1..Len(list)) \X (1..Len(list)) : q[1] < q[2]}}

\* What the App renders.
FileUploadShown == app.currentStep = "upload"

ResultsDisplayShown == app.currentStep = "preview" /\ app.analysis # None

SegmentationEditorShown ==
    app.currentStep = "segmentation" /\ app.optimizedSegments # None

ExportShown == app.currentStep = "export"

AppOnly == UNCHANGED <<engineVars, callVars, flowVars, tempVars, glossaryVars, trace>>

\* handleFileUpload up to its await: a file is chosen or dropped.
handleFileUpload(file) ==
    /\ FileUploadShown
    /\ FreeFetchIds # {}
    /\ app' = [app EXCEPT !.isProcessing = TRUE, !.error = None, !.analysis = None,
                          !.optimizedSegments = None, !.fileName = file,
                          !.currentStep = "analysis"]
    /\ fetches' = fetches \cup {NewFetch("upload", file)}
    /\ AppOnly

\* handleFileUpload after its await, the response being ok.
UploadResolves(f, data) ==
    /\ f \in fetches
    /\ f.kind = "upload"
    /\ app' = [app EXCEPT !.analysis = Some(f.file), !.optimizedSegments = Some(data),
                          !.currentStep = "preview", !.isProcessing = FALSE,
                          !.analysedFile = f.file]
    /\ fetches' = fetches \ {f}
    /\ AppOnly

\* handleFileUpload after its await, the fetch or the response failing.
UploadRejects(f) ==
    /\ f \in fetches
    /\ f.kind = "upload"
    /\ app' = [app EXCEPT !.error = Some("Server error"), !.currentStep = "upload",
                          !.isProcessing = FALSE]
    /\ fetches' = fetches \ {f}
    /\ AppOnly

handleSegmentsChange(updatedSegments) ==
    /\ SegmentationEditorShown
    /\ app' = [app EXCEPT !.optimizedSegments = Some(updatedSegments)]
    /\ UNCHANGED fetches
    /\ AppOnly

\* handleExportXLIFF up to its await.
handleExportXLIFF ==
    /\ SegmentationEditorShown
    /\ IF app.optimizedSegments = None \/ app.optimizedSegments = Some(<<>>)
       THEN /\ app' = [app EXCEPT !.error = Some("No segments available for export")]
            /\ UNCHANGED fetches
       ELSE /\ FreeFetchIds # {}
            /\ app' = [app EXCEPT !.isProcessing = TRUE]
            /\ fetches' = fetches \cup {NewFetch("export", app.fileName)}
    /\ AppOnly

\* handleExportXLIFF after its await, the response being ok.
ExportResolves(f) ==
    /\ f \in fetches
    /\ f.kind = "export"
    /\ app' = [app EXCEPT !.currentStep = "export", !.isProcessing = FALSE]
    /\ fetches' = fetches \ {f}
    /\ AppOnly

\* handleExportXLIFF after its await, the fetch or the response failing.
ExportRejects(f) ==
    /\ f \in fetches
    /\ f.kind = "export"
    /\ app' = [app EXCEPT !.error = Some("Export failed"), !.isProcessing = FALSE]
    /\ fetches' = fetches \ {f}
    /\ AppOnly

handleProceedToSegmentation ==
    /\ ResultsDisplayShown
    /\ app' = [app EXCEPT !.currentStep = "segmentation"]
    /\ UNCHANGED fetches
    /\ AppOnly

handleBackToPreview ==
    /\ SegmentationEditorShown
    /\ app' = [app EXCEPT !.currentStep = "preview"]
    /\ UNCHANGED fetches
    /\ AppOnly

handleBackToUpload ==
    /\ ResultsDisplayShown \/ ExportShown
    /\ app' = [app EXCEPT !.currentStep = "upload", !.analysis = None,
                          !.optimizedSegments = None, !.fileName = "", !.error = None]
    /\ UNCHANGED fetches
    /\ AppOnly

InitApp == Init

NextApp ==
    \/ \E file \in FileNames : handleFileUpload(file)
    \/ \E f \in fetches, data \in AnsweredSegments : UploadResolves(f, data)
    \/ \E f \in fetches : UploadRejects(f)
    \/ /\ SegmentationEditorShown
       /\ \E updatedSegments \in EditorUpdates(app.optimizedSegments[1]) :
             handleSegmentsChange(updatedSegments)
    \/ handleExportXLIFF
    \/ \E f \in fetches : ExportResolves(f)
    \/ \E f \in fetches : ExportRejects(f)
    \/ handleProceedToSegmentation
    \/ handleBackToPreview
    \/ handleBackToUpload

SpecApp == InitApp /\ [][NextApp]_vars

----------------------------------------------------------------------------
(* Claims *)

\* C1: the list generateSegmentation returns is ordered by
\* (slideId, coordinates.y, coordinates.x): of two output segments the earlier
\* one has the smaller slideId, or the same slideId and the smaller y, or the
\* same slideId and y and an x that is not larger; merged segments included.
C1_OutputSorted ==
    \A i, j \in 1..Len(segments) :
        i < j =>
            LET a == segments[i]
                b == segments[j]
            IN  /\ a.slideId <= b.slideId
                /\ a.slideId = b.slideId =>
                      \/ a.coordinates.y < b.coordinates.y
                      \/ /\ a.coordinates.y = b.coordinates.y
                         /\ a.coordinates.x <= b.coordinates.x

\* A call on two slides given in descending slideId order whose output holds
\* a merged segment: the sort had to reorder, and a union box took part.
C1_Witness ==
    /\ calls = 1
    /\ Len(slides) = 2
    /\ slides[1].slideId > slides[2].slideId
    /\ \E i \in 1..Len(segments) : segments[i].isMerged
    /\ Len(segments) >= 3

\* C2: over any sequence of generateSegmentation calls on one instance no two
\* created segments (combined, individual, standalone, merged) share an id,
\* and the counter has advanced by exactly one per created segment.
C2_IdsNeverReused ==
    /\ \A i, j \in 1..Len(createdIds) : i # j => createdIds[i] # createdIds[j]
    /\ segmentIdCounter = 1 + Len(createdIds)

\* A third call on the instance, after segments of every kind were created
\* and the counter has reached two digits.
C2_Witness ==
    /\ calls = 3
    /\ segmentIdCounter > 10
    /\ \E i \in 1..Len(segments) : segments[i].isMerged
    /\ \E i \in 1..Len(allSegments) : allSegments[i].isCombined

\* C3 as claimed: in the segments the /api/analyze-powerpoint handler
\* collects from the analysed slides of one document and sends, no two
\* segments have the same id.
C3_ResponseIdsUnique ==
    (pc = "responded" /\ response.status = 200) =>
        \A i, j \in 1..Len(response.segments) :
            i # j => response.segments[i].id # response.segments[j].id

\* The key of the claim: the tuple (slideId, text, x, y).
TupleKey(s) == <<s.slideId, s.text, s.coordinates.x, s.coordinates.y>>

\* The positions of a list that hold the first segment with their key.
FirstOccurrences(list) ==
    {i \in 1..Len(list) : \A j \in 1..(i - 1) : TupleKey(list[j]) # TupleKey(list[i])}

\* C4: removeDuplicates returns, in input order, exactly the segments that
\* are the first of the input with their key (slideId, text, x, y); width,
\* height, category and id do not tell segments apart.
C4_KeepsFirstOccurrences ==
    fn = "removeDuplicates" =>
        LET first == FirstOccurrences(input)
        IN  /\ Len(result) = Cardinality(first)
            /\ \A k \in 1..Len(result) :
                  \E i \in first :
                      /\ Cardinality({h \in first : h < i}) = k - 1
                      /\ result[k] = input[i]

\* A list in which a later segment has the key of an earlier one and another
\* width, category and id, and is dropped while two segments are kept.
C4_Witness ==
    /\ fn = "removeDuplicates"
    /\ Len(result) >= 2
    /\ \E i, j \in 1..Len(input) :
          /\ i < j
          /\ TupleKey(input[i]) = TupleKey(input[j])
          /\ input[i].coordinates.width # input[j].coordinates.width
          /\ input[i].visualContext # input[j].visualContext
          /\ input[i].id # input[j].id
          /\ \A k \in 1..Len(result) : result[k].id # input[j].id

\* C5: removeDuplicates applied to its own output returns that output.
C5_DedupIdempotent ==
    fn = "removeDuplicates" => removeDuplicates(result) = result

\* Three segments with one key, of which only the first is kept.
C5_Witness ==
    /\ fn = "removeDuplicates"
    /\ Len(input) = 3
    /\ Len(result) = 1

DistinctIds(list) ==
    \A i, j \in 1..Len(list) : i # j => list[i].id # list[j].id

\* The ids an output list accounts for: the originalSegments of a merged
\* segment, the id of any other.
RECURSIVE AccountedIds(_)
AccountedIds(list) ==
    IF Len(list) = 0 THEN <<>>
    ELSE (IF list[1].isMerged THEN list[1].originalSegments ELSE <<list[1].id>>)
            \o AccountedIds(Tail(list))

\* C6: for an input with pairwise distinct ids, the ids recorded in the
\* merged segments together with the ids of the segments left unmerged are
\* the input ids, each exactly once.
C6_MergePartitions ==
    (fn = "mergeSimilarSegments" /\ DistinctIds(input)) =>
        /\ Len(AccountedIds(result)) = Len(input)
        /\ Range(AccountedIds(result)) = Range(IdsOf(input))

\* Three segments of which some are merged and one is left as it is.
C6_Witness ==
    /\ fn = "mergeSimilarSegments"
    /\ DistinctIds(input)
    /\ Len(input) = 3
    /\ \E i \in 1..Len(result) : result[i].isMerged
    /\ \E i \in 1..Len(result) : ~result[i].isMerged

\* r covers every box and each of its edges is the extreme edge of some box.
MinimalCover(boxes, r) ==
    /\ \A i \in 1..Len(boxes) : isWithinBounds(boxes[i], r)
    /\ \E i \in 1..Len(boxes) : boxes[i].x = r.x
    /\ \E i \in 1..Len(boxes) : boxes[i].y = r.y
    /\ \E i \in 1..Len(boxes) : boxes[i].x + boxes[i].width = r.x + r.width
    /\ \E i \in 1..Len(boxes) : boxes[i].y + boxes[i].height = r.y + r.height

\* C7: calculateCombinedBoundingBox returns the minimal box covering a
\* non-empty list of boxes and {0, 0, 0, 0} for the empty list; the
\* coordinates of a merged segment and of a combined segment are that box
\* over their constituents.
C7_UnionIsMinimalCover ==
    /\ fn = "calculateCombinedBoundingBox" =>
          IF Len(input) = 0 THEN result = Box(0, 0, 0, 0)
          ELSE MinimalCover(input, result)
    /\ fn = "mergeSegments" =>
          result.isMerged /\ MinimalCover(input, result.coordinates)
    /\ (fn = "createContextSegments" /\ Len(input) > 0) =>
          result[1].isCombined /\ MinimalCover(input, result[1].coordinates)

\* Three boxes whose union box is none of them.
C7_Witness ==
    /\ fn = "calculateCombinedBoundingBox"
    /\ Len(input) = 3
    /\ \A i \in 1..Len(input) : input[i] # result
    /\ result.x > 0

\* The unit cells of the grid that lie in both boxes.
CommonCells(a, b) ==
    {c \in (0..(2 * MaxCoord)) \X (0..(2 * MaxCoord)) :
        /\ a.x <= c[1] /\ c[1] + 1 <= a.x + a.width
        /\ a.y <= c[2] /\ c[2] + 1 <= a.y + a.height
        /\ b.x <= c[1] /\ c[1] + 1 <= b.x + b.width
        /\ b.y <= c[2] /\ c[2] + 1 <= b.y + b.height}

\* C8: calculateOverlap returns the area of the intersection of the two
\* boxes, 0 when the intersection has no area (disjoint, touching, or a box
\* of no width or height); it is symmetric and never negative.
C8_OverlapIsIntersectionArea ==
    fn = "calculateOverlap" =>
        /\ result = Cardinality(CommonCells(input[1], input[2]))
        /\ result = calculateOverlap(input[2], input[1])
        /\ result >= 0

\* Two boxes of positive area that share an edge only: the result is 0.
C8_Witness ==
    /\ fn = "calculateOverlap"
    /\ input[1].width > 0 /\ input[1].height > 0
    /\ input[2].width > 0 /\ input[2].height > 0
    /\ input[1].x + input[1].width = input[2].x
    /\ input[1].y = input[2].y
    /\ result = 0

ScoresOf(in) ==
    [i \in 1..Len(in.visualContexts) |->
        calculateContextScore(in.element, in.visualContexts[i])]

Positive(score) == ScoreGreater(score, ZeroScore)

\* C9: findBestVisualContext returns the region with the highest composite
\* score, the first in the list among those that share it, and null exactly
\* when no region scores above 0.
C9_BestRegionFirstOnTies ==
    fn = "findBestVisualContext" =>
        LET sc == ScoresOf(input)
            n == Len(input.visualContexts)
        IN  IF \E k \in 1..n : Positive(sc[k])
            THEN \E k \in 1..n :
                    /\ Positive(sc[k])
                    /\ \A j \in 1..n : ~ScoreGreater(sc[j], sc[k])
                    /\ \A j \in 1..(k - 1) : sc[j].nan \/ ScoreGreater(sc[k], sc[j])
                    /\ result = input.visualContexts[k]
            ELSE result = Null

\* Two different regions with the same positive score: the first is returned.
C9_Witness ==
    /\ fn = "findBestVisualContext"
    /\ Len(input.visualContexts) = 2
    /\ input.visualContexts[1].id # input.visualContexts[2].id
    /\ Positive(ScoresOf(input)[1])
    /\ ~ScoreGreater(ScoresOf(input)[1], ScoresOf(input)[2])
    /\ ~ScoreGreater(ScoresOf(input)[2], ScoresOf(input)[1])
    /\ result = input.visualContexts[1]

NoOverlap(in) ==
    \A i \in 1..Len(in.visualContexts) :
        calculateOverlap(in.element.boundingBox, in.visualContexts[i].boundingBox) = 0

\* C10 as claimed: a fragment that overlaps no region is assigned to none,
\* whatever the topics, semantic contexts and the text.
C10_NoOverlapIsNull ==
    (fn = "findBestVisualContext" /\ NoOverlap(input)) => result = Null

\* C10 as amended: a fragment that overlaps no region, lies within the bounds
\* of none and contains no keyword of any region's topic or semantic context
\* is assigned to none.
C10_NoOverlapNoBonusIsNull ==
    (/\ fn = "findBestVisualContext"
     /\ NoOverlap(input)
     /\ \A i \in 1..Len(input.visualContexts) :
           /\ ~isWithinBounds(input.element.boundingBox,
                              input.visualContexts[i].boundingBox)
           /\ calculateSemanticSimilarity(input.element,
                                          input.visualContexts[i]).num = 0)
        => result = Null

\* A fragment with a text, away from a region that has a topic, none of whose
\* keywords the text contains: null is returned.
C10_Witness ==
    /\ fn = "findBestVisualContext"
    /\ NoOverlap(input)
    /\ Len(input.element.text) > 0
    /\ \E i \in 1..Len(input.visualContexts) : Len(input.visualContexts[i].topic) > 0
    /\ \A i \in 1..Len(input.visualContexts) :
           /\ ~isWithinBounds(input.element.boundingBox,
                              input.visualContexts[i].boundingBox)
           /\ calculateSemanticSimilarity(input.element,
                                          input.visualContexts[i]).num = 0
    /\ result = Null

\* The slides whose fragments have pairwise distinct ids, as the slides that
\* processSlide builds have.
DistinctElements(slide) ==
    \A i, j \in 1..Len(slide.textElements) :
        i # j => slide.textElements[i].id # slide.textElements[j].id

\* The positions of the segments of a list that refer to a fragment.
SegmentsOf(list, element) ==
    {k \in 1..Len(list) : list[k].textElementId = element.id}

\* C11: a fragment for which findBestVisualContext returns null gets exactly
\* one segment from processSlideSegmentation, the standalone one (region id
\* 'individual', category of the classifier, confidence 'medium', the
\* fragment's text and box); no region group, hence no combined segment,
\* holds the fragment.
C11_UnassignedGetsOnlyStandalone ==
    (fn = "processSlideSegmentation" /\ DistinctElements(input)) =>
        \A k \in 1..Len(input.textElements) :
            LET e == input.textElements[k]
            IN  findBestVisualContext(e, input.visualContexts) = Null =>
                    /\ Cardinality(SegmentsOf(result, e)) = 1
                    /\ \A s \in SegmentsOf(result, e) :
                          /\ result[s].visualContextId = Individual
                          /\ result[s].visualContext = inferVisualContext(e)
                          /\ result[s].confidence = "medium"
                          /\ result[s].text = e.text
                          /\ result[s].coordinates = e.boundingBox
                          /\ ~result[s].isCombined
                    /\ \A perm \in SlidePerms(input) :
                          LET groups == groupElementsByVisualContext(
                                            input.textElements, input.visualContexts, perm)
                          IN  \A g \in 1..Len(groups) :
                                  \A m \in 1..Len(groups[g].value.elements) :
                                      groups[g].value.elements[m] # e

\* A slide with regions and two fragments, one assigned to a region and one
\* to none.
C11_Witness ==
    /\ fn = "processSlideSegmentation"
    /\ DistinctElements(input)
    /\ Len(input.textElements) = 2
    /\ Len(input.visualContexts) > 0
    /\ findBestVisualContext(input.textElements[1], input.visualContexts) # Null
    /\ findBestVisualContext(input.textElements[2], input.visualContexts) = Null
    /\ Len(result) = 4

\* The union box of a non-empty list of fragments, edge by edge.
UnionOf(elements) ==
    LET idx == 1..Len(elements)
        Least(S) == CHOOSE v \in S : \A w \in S : v <= w
        Greatest(S) == CHOOSE v \in S : \A w \in S : v >= w
        left == Least({elements[i].boundingBox.x : i \in idx})
        top == Least({elements[i].boundingBox.y : i \in idx})
        right == Greatest({elements[i].boundingBox.x + elements[i].boundingBox.width
                           : i \in idx})
        bottom == Greatest({elements[i].boundingBox.y + elements[i].boundingBox.height
                            : i \in idx})
    IN  Box(left, top, right - left, bottom - top)

\* The positions of the combined segments of a region.
CombinedOf(list, contextId) ==
    {k \in 1..Len(list) : list[k].isCombined /\ list[k].visualContextId = contextId}

\* C12: processSlideSegmentation emits, for every region group that holds at
\* least one fragment, exactly one combined segment (coordinates the union of
\* the members' boxes, category the region's type, confidence 'high',
\* isCombined, elementCount the number of members) and no segment for a region
\* group without fragments; 'Overview' and 'Details' in one region give the
\* text 'Overview Details' and the box {100, 50, 600, 70}.
C12_OneCombinedPerGroup ==
    /\ fn = "processSlideSegmentation" =>
          \A perm \in SlidePerms(input) :
              result = processSlideSegmentation(input, 1, perm).list =>
                  LET groups == groupElementsByVisualContext(
                                    input.textElements, input.visualContexts, perm)
                  IN  \A g \in 1..Len(groups) :
                          LET members == groups[g].value.elements
                              combined == CombinedOf(result, groups[g].key)
                          IN  IF Len(members) = 0
                              THEN \A s \in 1..Len(result) :
                                       result[s].visualContextId # groups[g].key
                              ELSE /\ Cardinality(combined) = 1
                                   /\ \A s \in combined :
                                         /\ result[s].coordinates = UnionOf(members)
                                         /\ \A r \in 1..Len(input.visualContexts) :
                                               input.visualContexts[r].id = groups[g].key
                                                   => result[s].visualContext
                                                          = input.visualContexts[r].type
                                         /\ result[s].confidence = "high"
                                         /\ result[s].elementCount = Len(members)
    /\ (fn = "processSlideSegmentation" /\ input = ScenarioSlide) =>
          /\ result[1].isCombined
          /\ result[1].text = Overview \o <<" ">> \o Details
          /\ result[1].coordinates = Box(100, 50, 600, 70)
          /\ \A s \in 2..Len(result) : ~result[s].isCombined

\* A slide with a region that holds two fragments with different boxes and a
\* region that holds none.
C12_Witness ==
    /\ fn = "processSlideSegmentation"
    /\ Len(input.visualContexts) = 2
    /\ \E s \in 1..Len(result) :
          /\ result[s].isCombined
          /\ result[s].elementCount = 2
          /\ result[s].coordinates \notin
                 {input.textElements[k].boundingBox : k \in 1..Len(input.textElements)}
    /\ Cardinality({result[s].visualContextId : s \in 1..Len(result)} \ {Individual}) = 1

\* The title rule of the classifier, on the lower-cased text.
TitleRule(element) ==
    /\ (FontSizeOf(element) >= 20 \/ element.isBold)
    /\ Len(element.text) < 100
    /\ ~includes(element.text, <<".">>)

\* The text contains 'figure' or 'table' in some letter case.
NamesFigureOrTable(text) ==
    \E i \in 1..Len(text), word \in {<<"f", "i", "g", "u", "r", "e">>, <<"t", "a", "b", "l", "e">>} :
        /\ i + Len(word) - 1 <= Len(text)
        /\ \A j \in 1..Len(word) :
              text[i + j - 1] \in {word[j], UpperCase[CHOOSE u \in 1..26 : LowerCase[u] = word[j]]}

\* C13: both classifiers return one of the four categories, by the first rule
\* that applies: title_group for (fontSize >= 20 or bold), length < 100 and no
\* period; else bullet_list for a text that contains the bullet character
\* U+2022; else, for a text with no bullet marker, caption when it is shorter
\* than 200 characters and names a figure or a table in any letter case, and
\* body_text otherwise.
C13_ClassifierRules ==
    fn \in {"inferVisualContext", "inferVisualContextType"} =>
        /\ result \in {"title_group", "bullet_list", "caption", "body_text"}
        /\ TitleRule(input) => result = "title_group"
        /\ (~TitleRule(input) /\ Bullet \in Range(input.text)) => result = "bullet_list"
        /\ (~TitleRule(input) /\ Range(input.text) \cap {Bullet, "-", "*"} = {}) =>
              result = (IF Len(input.text) < 200 /\ NamesFigureOrTable(input.text)
                        THEN "caption" ELSE "body_text")

\* The slide has one region per fragment, with the fragment's box and the
\* category the classifier gives the fragment.
OneRegionPerFragment(slide) ==
    /\ Len(slide.visualContexts) = Len(slide.textElements)
    /\ \A i \in 1..Len(slide.textElements) :
          /\ slide.visualContexts[i].boundingBox = slide.textElements[i].boundingBox
          /\ slide.visualContexts[i].type = inferVisualContextType(slide.textElements[i])

\* Every segment of a fragment has the category the classifier gives the
\* fragment.
SegmentsClassified(slide) ==
    \A i \in 1..Len(slide.textElements), s \in 1..Len(slide.segments) :
        slide.segments[s].textElementId = slide.textElements[i].id =>
            slide.segments[s].visualContext = inferVisualContextType(slide.textElements[i])

\* C14: when the reasoning-service call for a slide throws, or returns empty
\* or unparseable content, analyzeSlide returns the slide with one synthesized
\* region per fragment (the fragment's box, the classifier's category) and
\* with every per-fragment segment's category set by the classifier.
C14_FailureTakesFallback ==
    (fn = "analyzeSlide" /\ input.outcome.kind \in {"throws", "empty", "unparseable"}) =>
        /\ result.slideId = input.slideData.slideId
        /\ result.textElements = input.slideData.textElements
        /\ OneRegionPerFragment(result)
        /\ SegmentsClassified(result)

\* C15: analyzeSlides gives one result per input slide, in input order, each
\* with the slideId of the slide at its position, whatever the reasoning
\* service does for each slide: the results collected so far match the slides
\* analysed so far, and the slides of a 200 response match all input slides.
C15_OneResultPerSlide ==
    /\ Len(analyzedSlides) <= Len(pptData)
    /\ \A i \in 1..Len(analyzedSlides) : analyzedSlides[i].slideId = pptData[i].slideId
    /\ (pc = "responded" /\ response.status = 200) =>
          /\ Len(response.slides) = Len(pptData)
          /\ \A i \in 1..Len(pptData) : response.slides[i].slideId = pptData[i].slideId

\* A response for two slides with fragments: the service threw on the first
\* (the slide came back as it went in) and the second was analysed.
C15_Witness ==
    /\ pc = "responded"
    /\ response.status = 200
    /\ Len(pptData) = 2
    /\ Len(pptData[1].textElements) > 0
    /\ response.slides[1] = pptData[1]
    /\ Len(response.slides[2].visualContexts) > 0

\* Two executions of processPowerPoint overlap: each has written its file and
\* has not yet returned or thrown.
Overlap(c, d) ==
    /\ c # d
    /\ procs[c].pc \in {"written", "parsed"}
    /\ procs[d].pc \in {"written", "parsed"}

\* C16: two executions of processPowerPoint that overlap in time have
\* different temp file paths, and the file an execution parses is the one it
\* wrote itself.
C16_TempPathsDiffer ==
    /\ \A c, d \in DOMAIN procs :
          Overlap(c, d) => procs[c].tempFilePath # procs[d].tempFilePath
    /\ \A c \in DOMAIN procs : procs[c].read \in {NotRead, c}

\* C17: once processPowerPoint has returned or thrown, the temp file it wrote
\* no longer exists.
C17_TempFileDeleted ==
    \A c \in DOMAIN procs :
        (procs[c].pc \in {"returned", "thrown"} /\ procs[c].wrote) =>
            [path |-> procs[c].tempFilePath, content |-> c] \notin tempFiles

\* C19: when the parser throws on the uploaded presentation,
\* processPowerPoint rejects (analyzeSlides is not called) and the handler
\* answers with an error: no 200, no slides and no segments in the response.
C19_ParseFailureIsAnError ==
    (\E i \in 1..Len(trace) : trace[i] = "parser throws") =>
        /\ \A i \in 1..Len(trace) : trace[i] # "analyzeSlides"
        /\ pc = "responded"
        /\ response.status \notin {0, 200}
        /\ response.slides = <<>>
        /\ response.segments = <<>>

\* The state belongs to a request of POST /api/analyze-powerpoint.
VisualRequest == pc \in {"received", "analyzing", "responded"}

\* The state belongs to a request of POST /api/analyze.
GlossaryRequest == pc \in {"uploaded", "awaiting", "answered"}

Called(name) == \E i \in 1..Len(trace) : trace[i] = name

\* An extension other than .txt, .pdf, .docx, .html and .htm in any letter case.
Unsupported(extension) ==
    \A e \in {<<".", "t", "x", "t">>, <<".", "p", "d", "f">>, <<".", "d", "o", "c", "x">>, <<".", "h", "t", "m", "l">>, <<".", "h", "t", "m">>} :
        \/ Len(e) # Len(extension)
        \/ \E i \in 1..Len(e) : LowerChar(extension[i]) # e[i]

\* The text the handler extracted holds nothing but white space.
ExtractedNothing(req) ==
    /\ ~Unsupported(req.extension)
    /\ ~ExtractionThrows(req)
    /\ \A i \in 1..Len(req.textContent) : req.textContent[i] \in {" ", "\n", "\t"}

\* The part of C18 about POST /api/analyze-powerpoint: without a file, without
\* the API key or with an extension other than .pptx nothing is called and
\* the response is an error.
VisualInputErrorsRejected ==
    (/\ VisualRequest
     /\ \/ ~request.hasFile
        \/ ~request.hasApiKey
        \/ toLowerCase(request.extension) # <<".", "p", "p", "t", "x">>)
        => /\ pc # "analyzing"
           /\ ~Called("processPowerPoint")
           /\ ~Called("analyzeSlides")
           /\ pc = "responded" => response.status \in {400, 500}

GlossaryFlowSafe ==
    /\ stage \in {"idle", "context-extracting", "term-extracting", "done", "failed"}
    /\ Called("extract") => docContext \in Contexts
    /\ Called("infer throws") =>
          /\ ~Called("extract")
          /\ stage = "failed"
          /\ terms = <<>>
          /\ pc = "answered" =>
                /\ response.status = 500
                /\ response.kind = "error"
                /\ response.terms = <<>>

\* failed is absorbing, and the flow moves along idle, context-extracting,
\* term-extracting, done only.
GlossaryFlowStep ==
    /\ stage = "failed" => stage' = "failed"
    /\ stage' = "term-extracting" => stage \in {"context-extracting", "term-extracting"}
    /\ stage' = "done" => stage \in {"term-extracting", "done"}

\* C20: in the glossary flow stage 2 is invoked only after stage 1 produced
\* a context; if stage 1 throws, term extraction is never invoked, the flow
\* ends in the absorbing state failed, and analyzeDocument and the response of
\* POST /api/analyze report a failure and contain no term list.
C20_StageOneFailureIsFatal == []GlossaryFlowSafe /\ [][GlossaryFlowStep]_vars

\* Stage 1 threw on a document with text and the handler has answered.
C20_Witness ==
    /\ pc = "answered"
    /\ Called("analyzeDocument")
    /\ Called("infer throws")
    /\ stage = "failed"
    /\ response.status = 500

\* The position in a list of the segment with an id (ids are distinct).
PositionOf(list, id) == CHOOSE i \in 1..Len(list) : list[i].id = id

\* The positions in the input of the constituents of an output segment, in
\* the order the output records them.
Constituents(in, out) ==
    IF out.isMerged
    THEN [k \in 1..Len(out.originalSegments) |-> PositionOf(in, out.originalSegments[k])]
    ELSE <<PositionOf(in, out.id)>>

\* The positions processed before the k-th output segment was built.
ProcessedBefore(in, outs, k) ==
    UNION {Range(Constituents(in, outs[j])) : j \in 1..(k - 1)}

\* Same slide, same category and centres strictly less than 50 apart, the
\* distance compared squared on doubled coordinates (2 * 50 = 100).
Similar(a, b) ==
    LET ax == 2 * a.coordinates.x + a.coordinates.width
        ay == 2 * a.coordinates.y + a.coordinates.height
        bx == 2 * b.coordinates.x + b.coordinates.width
        by == 2 * b.coordinates.y + b.coordinates.height
    IN  /\ a.slideId = b.slideId
        /\ a.visualContext = b.visualContext
        /\ (ax - bx) * (ax - bx) + (ay - by) * (ay - by) < 100 * 100

\* C21: every merged segment of mergeSimilarSegments consists of segments
\* similar to its anchor, its earliest constituent (same slideId, same
\* category, centroid distance below 50); every segment unprocessed when the
\* anchor is reached and similar to it is absorbed; a segment without such a
\* partner passes through unchanged and unmerged.
C21_MergedAreSimilarToAnchor ==
    (fn = "mergeSimilarSegments" /\ DistinctIds(input)) =>
        \A k \in 1..Len(result) :
            LET members == Constituents(input, result[k])
                anchor == members[1]
                before == ProcessedBefore(input, result, k)
            IN  /\ \A m \in 2..Len(members) :
                      /\ members[m] > anchor
                      /\ Similar(input[anchor], input[members[m]])
                /\ \A j \in 1..Len(input) :
                      (j \notin before /\ j # anchor /\ Similar(input[anchor], input[j]))
                          => j \in Range(members)
                /\ result[k].isMerged <=> Len(members) > 1
                /\ ~result[k].isMerged => result[k] = input[anchor]

\* Three segments: the first and the third are merged, the second, at
\* exactly 50 from the first, passes through.
C21_Witness ==
    /\ fn = "mergeSimilarSegments"
    /\ input = <<G1, G7, G3>>
    /\ Len(result) = 2
    /\ result[1].isMerged
    /\ result[2] = G7

\* C22: a merged segment has the texts of its constituents joined by single
\* spaces in input order, the union box of their coordinates, isMerged, their
\* ids in that order, and the slideId and category they share.
C22_MergedCombinesInOrder ==
    (fn = "mergeSimilarSegments" /\ DistinctIds(input)) =>
        \A k \in 1..Len(result) :
            result[k].isMerged =>
                LET members == Constituents(input, result[k])
                    n == Len(members)
                IN  /\ n > 1
                    /\ \A m \in 1..(n - 1) : members[m] < members[m + 1]
                    /\ result[k].text = Join([m \in 1..n |-> input[members[m]].text], <<" ">>)
                    /\ MinimalCover([m \in 1..n |-> input[members[m]].coordinates],
                                    result[k].coordinates)
                    /\ \A m \in 1..n :
                          /\ input[members[m]].slideId = result[k].slideId
                          /\ input[members[m]].visualContext = result[k].visualContext

\* Three segments with different texts and boxes merged into one.
C22_Witness ==
    /\ fn = "mergeSimilarSegments"
    /\ input = <<G3, G1, G6>>
    /\ Len(result) = 1
    /\ result[1].isMerged
    /\ result[1].text = <<"b", " ", "a", " ", "a", "_", "0">>
    /\ result[1].originalSegments = <<G3.id, G1.id, G6.id>>

\* The members of a finite set of numbers in increasing order.
Ascending(S) ==
    [k \in 1..Cardinality(S) |-> CHOOSE x \in S : Cardinality({y \in S : y < x}) = k - 1]

\* The positions in textElements of the fragments of a region, read off the
\* individual segments the region produced.
MembersOf(slide, list, contextId) ==
    {k \in 1..Len(slide.textElements) :
        \E t \in 1..Len(list) :
            /\ ~list[t].isCombined
            /\ list[t].visualContextId = contextId
            /\ list[t].textElementId = slide.textElements[k].id}

\* C23: the text of a combined segment is the texts of the region's fragments
\* joined by single spaces in the order of textElements, also for a region
\* that received fragments through the semantic merge.
C23_CombinedTextInFragmentOrder ==
    (fn = "processSlideSegmentation" /\ DistinctElements(input)) =>
        \A s \in 1..Len(result) :
            result[s].isCombined =>
                LET ordered == Ascending(MembersOf(input, result, result[s].visualContextId))
                IN  result[s].text
                        = Join([m \in 1..Len(ordered) |-> input.textElements[ordered[m]].text],
                               <<" ">>)

\* The positions of the individual segments a fragment has in regions.
RegionSegmentsOf(list, element) ==
    {t \in 1..Len(list) :
        /\ ~list[t].isCombined
        /\ list[t].visualContextId # Individual
        /\ list[t].textElementId = element.id}

\* C29: after groupElementsByVisualContext every fragment is in the element
\* list of at most one region group, and a group whose elements were merged
\* into another produces no combined and individual segments of its own: a
\* fragment has at most one individual segment and its text is part of at
\* most one combined segment's group.
C29_FragmentInOneGroup ==
    (fn = "processSlideSegmentation" /\ DistinctElements(input)) =>
        /\ \A perm \in SlidePerms(input) :
              LET groups == groupElementsByVisualContext(
                                input.textElements, input.visualContexts, perm)
              IN  \A k \in 1..Len(input.textElements) :
                      Cardinality({g \in 1..Len(groups) :
                          \E m \in 1..Len(groups[g].value.elements) :
                              groups[g].value.elements[m] = input.textElements[k]}) <= 1
        /\ \A k \in 1..Len(input.textElements) :
              Cardinality(RegionSegmentsOf(result, input.textElements[k])) <= 1

\* C26: on return from mergeSemanticGroups no two adjacent groups of the
\* resulting list have centres less than 200 apart, measured on their current
\* bounding boxes (compared squared, on doubled coordinates).
C26_SemanticMergeFixpoint ==
    fn = "mergeSemanticGroups" =>
        \A k \in 1..(Len(result) - 1) :
            LET a == result[k].boundingBox
                b == result[k + 1].boundingBox
                dx == (2 * a.x + a.width) - (2 * b.x + b.width)
                dy == (2 * a.y + a.height) - (2 * b.y + b.height)
            IN  dx * dx + dy * dy >= 400 * 400

\* C24: the bullet rule fires only on the bullet character anywhere in the
\* text or on '-' or '*' at its start: a fragment that fails the title rule,
\* has no bullet character and has '-' or '*' at most at a non-leading
\* position is not classified bullet_list.
C24_BulletNeedsLeadingMarker ==
    fn \in {"inferVisualContext", "inferVisualContextType"} =>
        ((/\ ~TitleRule(input)
          /\ Bullet \notin Range(input.text)
          /\ Len(input.text) > 0
          /\ input.text[1] \notin {"-", "*"}) => result # "bullet_list")

\* The number of fragments on the slides before the i-th.
FragmentsBefore(i) ==
    LET F[j \in 0..Len(slides)] ==
            IF j = 0 THEN 0 ELSE F[j - 1] + Len(slides[j].textElements)
    IN  F[i - 1]

\* The position in allSegments of the standalone segment of the k-th fragment
\* of the i-th slide: every fragment has one, in slide and fragment order.
StandaloneOf(i, k) ==
    {t \in 1..Len(allSegments) :
        /\ allSegments[t].visualContextId = Individual
        /\ Cardinality({u \in 1..t : allSegments[u].visualContextId = Individual})
              = FragmentsBefore(i) + k}

\* The segment is in the output, as it is or as a constituent of a merged one.
InOutput(segment) ==
    \E s \in 1..Len(segments) :
        \/ segments[s].id = segment.id
        \/ segment.id \in Range(segments[s].originalSegments)

Assigned(i, k) ==
    findBestVisualContext(slides[i].textElements[k], slides[i].visualContexts) # Null

\* C25: in the result of generateSegmentation the standalone segment of a
\* fragment that is assigned to a region is removed by the deduplication: a
\* segment of a region with its slideId, text, x and y precedes it, and it is
\* neither in the output nor a constituent of a merged segment.
C25_StandaloneOfAssignedRemoved ==
    calls > 0 =>
        \A i \in 1..Len(slides) :
            \A k \in 1..Len(slides[i].textElements) :
                Assigned(i, k) =>
                    \A t \in StandaloneOf(i, k) :
                        /\ allSegments[t].slideId = slides[i].slideId
                        /\ allSegments[t].textElementId = slides[i].textElements[k].id
                        /\ \E u \in 1..(t - 1) :
                              /\ allSegments[u].visualContextId # Individual
                              /\ TupleKey(allSegments[u]) = TupleKey(allSegments[t])
                        /\ ~InOutput(allSegments[t])

\* A slide with a fragment in a region, whose standalone segment is gone, and
\* a fragment in no region, whose standalone segment is in the output.
C25_Witness ==
    /\ calls > 0
    /\ \E i \in 1..Len(slides) :
          \E k, l \in 1..Len(slides[i].textElements) :
              /\ Assigned(i, k)
              /\ StandaloneOf(i, k) # {}
              /\ \A t \in StandaloneOf(i, k) : ~InOutput(allSegments[t])
              /\ ~Assigned(i, l)
              /\ \E t \in StandaloneOf(i, l) : InOutput(allSegments[t])

\* The segments an output segment was built from.
Sources(out) ==
    {t \in 1..Len(allSegments) :
        \/ allSegments[t].id = out.id
        \/ allSegments[t].id \in Range(out.originalSegments)}

\* C28: no output segment of generateSegmentation repeats a fragment's text:
\* none is built from two segments of the same fragment, and none from the
\* combined segment of a region together with the individual segment of one
\* of the region's fragments.
C28_NoTextRepeated ==
    calls > 0 =>
        \A s \in 1..Len(segments) :
            \A t, u \in Sources(segments[s]) :
                t # u =>
                    /\ ~(/\ ~allSegments[t].isCombined
                          /\ ~allSegments[u].isCombined
                          /\ allSegments[t].slideId = allSegments[u].slideId
                          /\ allSegments[t].textElementId = allSegments[u].textElementId)
                    /\ ~(/\ allSegments[t].isCombined
                          /\ ~allSegments[u].isCombined
                          /\ allSegments[t].slideId = allSegments[u].slideId
                          /\ allSegments[t].visualContextId = allSegments[u].visualContextId)

\* C30: when the analysis of a slide fails with an exception, analyzeSlide
\* returns the slide as it was at call time, with its visualContexts and its
\* segments, also when the exception is raised inside
\* enhanceSlideWithAnalysis after the service has answered (a recommendation
\* without segmentId, a relationship without elements).
C30_FailureReturnsOriginal ==
    (/\ fn = "analyzeSlide"
     /\ \/ input.outcome.kind = "throws"
        \/ /\ input.outcome.kind = "analysis"
           /\ enhanceThrows(input.slideData, input.outcome.analysis)) =>
        /\ result.visualContexts = input.slideData.visualContexts
        /\ result.segments = input.slideData.segments

\* In the step 'export' the App holds segments and the analysed file's name.
ExportedHasSegments ==
    app.currentStep = "export" =>
        /\ app.optimizedSegments # None
        /\ app.optimizedSegments # Some(<<>>)
        /\ app.fileName # ""
        /\ app.fileName = app.analysedFile

\* An export fails, or is attempted with no segments.
ExportFails ==
    \/ \E f \in fetches : ExportRejects(f)
    \/ handleExportXLIFF /\ fetches' = fetches

\* C27: in every reachable state of the App with currentStep 'export',
\* optimizedSegments is non-null and non-empty and fileName is the name of the
\* analysed file, however the user's actions interleave with an export
\* request in flight; an export that fails or is attempted with no segments
\* leaves currentStep unchanged and sets error.
C27_ExportOnlyWithSegments ==
    /\ []ExportedHasSegments
    /\ [][ExportFails => (app'.currentStep = app.currentStep /\ app'.error # None)]_vars

====
